---- MODULE Spec2Model ----
(***************************************************************************)
(* Model of the data-driven styling engine of bigquery-geo-viz:            *)
(*   - StylesService (styles.service.ts): parseStyle, uncache, scaleCache  *)
(*   - MapComponent (map.component.ts): the input setters, ngDoCheck and   *)
(*     updateStyles, which drive the re-style passes.                      *)
(*                                                                         *)
(* JavaScript values are tagged records:                                   *)
(*   [t |-> "num", p, q]    the number p/q (q > 0, lowest terms)           *)
(*   [t |-> "nan"]          NaN                                            *)
(*   [t |-> "str", s]       a string                                       *)
(*   [t |-> "rgb", r, g, b] the string "rgb(r, g, b)" that d3-color prints *)
(*   [t |-> "null"], [t |-> "undefined"]                                   *)
(* The d3 scales are modelled after d3-scale 3 / d3-array 2 /              *)
(* d3-interpolate 1 / d3-color 1, the libraries styles.service.ts imports. *)
(***************************************************************************)
EXTENDS Integers, Sequences, FiniteSets, TLC

---------------------------------------------------------------------------
(* JavaScript values *)

RECURSIVE GCD(_, _)
GCD(a, b) == IF b = 0 THEN a ELSE GCD(b, a % b)

Abs(n) == IF n < 0 THEN -n ELSE n

Rat(p, q) ==
  LET s == IF q < 0 THEN -1 ELSE 1
      g == GCD(Abs(p), Abs(q))
  IN  [t |-> "num", p |-> (s * p) \div g, q |-> (s * q) \div g]

Num(n) == [t |-> "num", p |-> n, q |-> 1]
NaN == [t |-> "nan"]
Str(s) == [t |-> "str", s |-> s]
Rgb(r, g, b) == [t |-> "rgb", r |-> r, g |-> g, b |-> b]
Null == [t |-> "null"]
Undefined == [t |-> "undefined"]

IsNum(v) == v.t = "num"
IsNaN(v) == v.t = "nan"

\* Arithmetic of JavaScript numbers; NaN is absorbing.
NumAdd(a, b) == IF IsNaN(a) \/ IsNaN(b) THEN NaN ELSE Rat(a.p * b.q + b.p * a.q, a.q * b.q)
NumSub(a, b) == IF IsNaN(a) \/ IsNaN(b) THEN NaN ELSE Rat(a.p * b.q - b.p * a.q, a.q * b.q)
NumMul(a, b) == IF IsNaN(a) \/ IsNaN(b) THEN NaN ELSE Rat(a.p * b.p, a.q * b.q)
\* a / b for b # 0
NumDiv(a, b) == IF IsNaN(a) \/ IsNaN(b) THEN NaN ELSE Rat(a.p * b.q, a.q * b.p)
\* Comparisons are false as soon as one side is NaN.
NumLt(a, b) == IsNum(a) /\ IsNum(b) /\ a.p * b.q < b.p * a.q
NumGt(a, b) == NumLt(b, a)
NumLe(a, b) == IsNum(a) /\ IsNum(b) /\ a.p * b.q <= b.p * a.q

\* Math.round: the nearest integer, halves towards +Infinity.
MathRound(a) == (2 * a.p + a.q) \div (2 * a.q)

---------------------------------------------------------------------------
(* String conversions, given by their value on the literals the model uses *)

\* Number(s) for the numeric literals of the model: <<literal, p, q>>.
NumberLiterals ==
  { <<"0", 0, 1>>, <<"1", 1, 1>>, <<"2", 2, 1>>, <<"5", 5, 1>>, <<"10", 10, 1>>,
    <<"13", 13, 1>>, <<"15", 15, 1>>, <<"20", 20, 1>>, <<"24", 24, 1>>,
    <<"25", 25, 1>>, <<"30", 30, 1>>, <<"46", 46, 1>>, <<"60", 60, 1>>,
    <<"120", 120, 1>>, <<"0.5", 1, 2>>, <<"3", 3, 1>>, <<"-2", -2, 1>>,
    <<"1.2346", 6173, 5000>>, <<"-0.0004", -1, 2500>> }

\* d3Color.color(s) for the colour literals of the model: <<literal, r, g, b>>.
ColorLiterals ==
  { <<"#fff", 255, 255, 255>>, <<"#000", 0, 0, 0>>, <<"#111", 17, 17, 17>>,
    <<"#222", 34, 34, 34>>, <<"#F44336", 244, 67, 54>>, <<"#FFC107", 255, 193, 7>>,
    <<"#4CAF50", 76, 175, 80>>, <<"#ff0000", 255, 0, 0>>, <<"#000000", 0, 0, 0>> }

\* Number(s) of a string: the empty string is 0, a numeric literal its value,
\* anything else NaN.
NumberOfString(s) ==
  IF s = "" THEN Num(0)
  ELSE IF \E l \in NumberLiterals : l[1] = s
       THEN LET l == CHOOSE l \in NumberLiterals : l[1] = s IN Rat(l[2], l[3])
       ELSE NaN

\* Number(v) of any value.
parseNumber(v) ==
  CASE v.t = "num" -> v
    [] v.t = "nan" -> NaN
    [] v.t = "str" -> NumberOfString(v.s)
    [] v.t = "rgb" -> NaN
    [] v.t = "null" -> Num(0)
    [] v.t = "undefined" -> NaN

\* String(v), as far as the model's literals go: a number prints as its
\* literal; a number without a literal prints as a string no rule contains.
JsString(v) ==
  CASE v.t = "str" -> v.s
    [] v.t = "num" ->
         IF \E l \in NumberLiterals : Rat(l[2], l[3]) = v
         THEN (CHOOSE l \in NumberLiterals : Rat(l[2], l[3]) = v)[1]
         ELSE "<number>"
    [] v.t = "nan" -> "NaN"
    [] v.t = "rgb" -> "<rgb>"
    [] v.t = "null" -> "null"
    [] v.t = "undefined" -> "undefined"

\* d3Color.color(v): the colour as Rgb(r, g, b), or Null when v is no colour.
d3Color(v) ==
  CASE v.t = "rgb" -> v
    [] v.t = "str" ->
         IF \E l \in ColorLiterals : l[1] = v.s
         THEN LET l == CHOOSE l \in ColorLiterals : l[1] = v.s IN Rgb(l[2], l[3], l[4])
         ELSE Null
    [] OTHER -> Null

---------------------------------------------------------------------------
(* styles.service.ts: the style properties *)

StylePropNames ==
  <<"fillColor", "fillOpacity", "strokeColor", "strokeOpacity", "strokeWeight", "circleRadius">>

PropNames == {StylePropNames[i] : i \in DOMAIN StylePropNames}

DEFAULT_STYLES ==
  [fillColor |-> Str("#ff0000"), fillOpacity |-> Num(1), strokeColor |-> Str("#000000"),
   strokeOpacity |-> Num(1), strokeWeight |-> Num(1), circleRadius |-> Num(5)]

parseColorString(v) ==
  LET color == d3Color(v)
  IN  IF color # Null THEN color ELSE DEFAULT_STYLES.fillColor

\* StyleProps[..].type
PropType(propName) ==
  IF propName \in {"fillColor", "strokeColor"} THEN "color" ELSE "number"

\* StyleProps.find((p) => p.name === propName).parse(v)
PropParse(propName, v) ==
  IF PropType(propName) = "color" THEN parseColorString(v) ELSE parseNumber(v)

StyleFunctionNames == {"identity", "categorical", "interval", "linear", "exponential"}

---------------------------------------------------------------------------
(* The d3 scales that parseStyle builds and calls *)

\* a[i] of a JavaScript array (0-based); undefined outside the array.
At(a, i) == IF i >= 0 /\ i < Len(a) THEN a[i + 1] ELSE Undefined

Min(a, b) == IF a < b THEN a ELSE b

Reverse(a) == [i \in 1..Len(a) |-> a[Len(a) + 1 - i]]

\* d3-array bisectRight(a, x, lo, hi) with the ascending comparator:
\*   while (lo < hi) { mid = lo + hi >>> 1;
\*                     if (compare(a[mid], x) > 0) hi = mid; else lo = mid + 1; }
RECURSIVE bisectRight(_, _, _, _)
bisectRight(a, x, lo, hi) ==
  IF lo < hi
  THEN LET mid == (lo + hi) \div 2
       IN  IF NumGt(At(a, mid), x)
           THEN bisectRight(a, x, lo, mid)
           ELSE bisectRight(a, x, mid + 1, hi)
  ELSE lo

\* scaleOrdinal().domain(_): the distinct keys in order of first occurrence.
RECURSIVE OrdinalDomain(_)
OrdinalDomain(d) ==
  IF Len(d) = 0 THEN <<>>
  ELSE LET front == OrdinalDomain(SubSeq(d, 1, Len(d) - 1))
           last == d[Len(d)]
       IN  IF \E i \in DOMAIN front : front[i] = last THEN front ELSE Append(front, last)

\* d3Scale.scaleOrdinal().domain(domain).range(range).unknown(unknown)
scaleOrdinal(domain, range, unknown) ==
  [kind |-> "ordinal", domain |-> OrdinalDomain(domain), range |-> range, unknown |-> unknown]

\* d3Scale.scaleThreshold().domain(domain).range(range); unknown stays undefined
scaleThreshold(domain, range) ==
  [kind |-> "threshold", domain |-> domain, range |-> range, unknown |-> Undefined]

\* d3Scale.scaleLinear().domain(domain).range(range); unknown stays undefined
scaleLinear(domain, range) ==
  [kind |-> "linear", domain |-> domain, range |-> range, unknown |-> Undefined,
   clamp |-> FALSE]

\* ordinal scale(d): key = d + "", i = index.get(key);
\*   if (!i) return unknown;  return range[(i - 1) % range.length];
ApplyOrdinal(scale, d) ==
  LET key == JsString(d)
      hits == {i \in DOMAIN scale.domain : scale.domain[i] = key}
  IN  IF hits = {} THEN scale.unknown
      ELSE IF Len(scale.range) = 0 THEN Undefined
      ELSE LET i == CHOOSE i \in hits : TRUE
           IN  At(scale.range, (i - 1) % Len(scale.range))

\* threshold scale(x): x <= x ? range[bisect(domain, x, 0, n)] : unknown,
\*   n = Math.min(domain.length, range.length - 1)
ApplyThreshold(scale, x) ==
  LET n == Min(Len(scale.domain), Len(scale.range) - 1)
  IN  IF NumLe(x, x) THEN At(scale.range, bisectRight(scale.domain, x, 0, n))
      ELSE scale.unknown

\* d3-scale normalize(a, b) applied to x:
\*   (b -= (a = +a)) ? (x - a) / b : (isNaN(b) ? NaN : 0.5)
normalize(a, b, x) ==
  LET d == NumSub(parseNumber(b), parseNumber(a))
  IN  IF IsNaN(d) THEN NaN
      ELSE IF d.p = 0 THEN Rat(1, 2)
      ELSE NumDiv(NumSub(x, parseNumber(a)), d)

\* One channel of d3-interpolate rgb (gamma 1) as rgb.toString() prints it:
\*   d = b - a;  d ? a + t * d : a;  Math.max(0, Math.min(255, Math.round(c) || 0))
RgbChannel(a, b, t) ==
  IF a = b THEN a
  ELSE IF IsNaN(t) THEN 0
  ELSE LET c == MathRound(NumAdd(Num(a), NumMul(t, Num(b - a))))
       IN  IF c < 0 THEN 0 ELSE IF c > 255 THEN 255 ELSE c

\* d3-interpolate interpolate(a, b)(t), by the type of b.
interpolate(a, b, t) ==
  CASE b.t \in {"null", "undefined"} -> b
    [] b.t \in {"num", "nan"} ->
         \* interpolateNumber: a * (1 - t) + b * t
         NumAdd(NumMul(parseNumber(a), NumSub(Num(1), t)), NumMul(b, t))
    [] b.t \in {"str", "rgb"} ->
         LET cb == d3Color(b)
             ca == d3Color(a)
         IN  IF cb = Null THEN b
             ELSE IF ca = Null THEN cb
             ELSE Rgb(RgbChannel(ca.r, cb.r, t), RgbChannel(ca.g, cb.g, t),
                      RgbChannel(ca.b, cb.b, t))

\* d3-scale bimap(domain, range)(x)
bimap(domain, range, x) ==
  LET d0 == At(domain, 0)
      d1 == At(domain, 1)
      r0 == At(range, 0)
      r1 == At(range, 1)
  IN  IF NumLt(d1, d0)
      THEN interpolate(r1, r0, normalize(d1, d0, x))
      ELSE interpolate(r0, r1, normalize(d0, d1, x))

\* d3-scale polymap(domain, range)(x)
polymap(domain, range, x) ==
  LET j == Min(Len(domain), Len(range)) - 1
      rev == NumLt(At(domain, j), At(domain, 0))
      d == IF rev THEN Reverse(domain) ELSE domain
      r == IF rev THEN Reverse(range) ELSE range
      i == bisectRight(d, x, 1, j) - 1
  IN  interpolate(At(r, i), At(r, i + 1), normalize(At(d, i), At(d, i + 1), x))

\* d3-scale clamper(domain[0], domain[n - 1])(x), what clamp(true) installs
clamper(domain, x) ==
  LET a == At(domain, 0)
      b == At(domain, Len(domain) - 1)
      lo == IF NumGt(a, b) THEN b ELSE a
      hi == IF NumGt(a, b) THEN a ELSE b
  IN  IF NumLt(x, lo) THEN lo ELSE IF NumGt(x, hi) THEN hi ELSE x

\* linear scale(x): isNaN(x = +x) ? unknown : piecewise(domain, range)(clamp(x)),
\*   piecewise = Math.min(domain.length, range.length) > 2 ? polymap : bimap;
\*   clamp is the identity unless clamp(true) was called
ApplyLinear(scale, x) ==
  LET cx == IF scale.clamp THEN clamper(scale.domain, x) ELSE x
  IN  IF IsNaN(x) THEN scale.unknown
      ELSE IF Min(Len(scale.domain), Len(scale.range)) > 2
           THEN polymap(scale.domain, scale.range, cx)
           ELSE bimap(scale.domain, scale.range, cx)

\* Calling a cached scale: what it computes depends on the kind it was built as.
ApplyScale(scale, x) ==
  CASE scale.kind = "ordinal" -> ApplyOrdinal(scale, x)
    [] scale.kind = "threshold" -> ApplyThreshold(scale, parseNumber(x))
    [] scale.kind = "linear" -> ApplyLinear(scale, parseNumber(x))

---------------------------------------------------------------------------
(* styles.service.ts: StylesService *)

\* The rule objects a caller holds, one per style property in a styles
\* object; a rule is known by its identity, and the fields of the object can
\* be changed in place (StyleRule has no readonly field).
RuleIds == 1..Len(StylePropNames)

NoScale == [kind |-> "none"]

NoCall == [op |-> "none"]

VARIABLES
  rules,        \* rule identity -> the StyleRule object's current fields
  scaleCache,   \* StylesService.scaleCache: rule identity -> scale, or NoScale
  last,         \* the last parseStyle call: its arguments and how it ended
  builds,       \* per rule: scales constructed since the last uncache()
  hist,         \* per rule: "clean", "stale" (mutated in place since its scale
                \* was cached) or "cleared" (was stale when uncache() ran)
  mutations,    \* number of in-place mutations so far
  owner,        \* rule identity -> the style property whose rule it is (the
                \* styleName with styles[styleName] = the rule), or "any"
                \* for a rule object the caller binds to no property
  stamp         \* per rule: "none", or when the scale now cached was built:
                \* "current" (since the last re-style trigger) or "earlier"

\* map.component.ts: the fields of MapComponent
VARIABLES
  map,                   \* this.map is set (the Maps API instance exists)
  _rows,                 \* the rows array, shared with the parent component
  _features,
  _styles,               \* style name -> identity of styles[name], 0: undefined
  _geoColumn,
  _activeGeometryTypes,
  _numChanges,
  _batchSize,
  _deckLayer,            \* Null, or the overlay's props: [layers |-> ...]
  _iterableDiffer,       \* the collection as of the differ's last diff()
  _page

serviceVars == <<rules, scaleCache, last, builds, hist, mutations, owner, stamp>>

mapVars == <<map, _rows, _features, _styles, _geoColumn, _activeGeometryTypes,
             _numChanges, _batchSize, _deckLayer, _iterableDiffer, _page>>

\* main.component.ts and bigquery.service.ts: the query, its result pages and
\* the statistics of the numeric column n
VARIABLES
  pending,      \* MainComponent.pending
  main_rows,    \* MainComponent.rows: the normalized rows of the result
  stats,        \* the ColumnStat that stats.get('n') gives, or Undefined
  cells,        \* the raw cells of column n that normalizeRows has put into
                \* that ColumnStat since it was created
  pages,        \* the result pages whose rows were put into MainComponent.rows
                \* for the current query, in the order they were put
  inflight,     \* the requests sent to BigQuery and not yet answered
  queryNo       \* the number of queries the user has started

queryVars == <<pending, main_rows, stats, cells, pages, inflight, queryNo>>

\* main.component.ts: the domain and range form arrays of the six style rules
VARIABLES
  forms,        \* style name -> [domain, range], the values of the form arrays
  formEdits     \* operations on the form arrays so far, counted up to MaxFormEdits

formVars == <<forms, formEdits>>

\* styles.service.ts: the caches of point icons
VARIABLES
  iconCache,     \* icon key -> the icon object cached
  imageCache,    \* image key -> the data URL cached
  iconsMade,     \* icon objects created so far
  renders,       \* image key -> times the circle was rendered (history)
  firstIcon      \* icon key -> the icon the first request returned (history)

iconVars == <<iconCache, imageCache, iconsMade, renders, firstIcon>>

\* main.component.html: the inputs of <app-map> and the change detection that
\* hands them over
VARIABLES
  rowsBound,     \* MapComponent._rows is the array object MainComponent.rows
  geoColumnValue, \* schemaFormGroup.controls.geoColumn.value
  todo           \* what the running handler has still to do, in order

bindVars == <<rowsBound, geoColumnValue, todo>>

\* main.component.ts: the state behind the sharing link
VARIABLES
  jobID,               \* MainComponent.jobID: Undefined until ngOnInit, then null or the id
  projectID,           \* MainComponent.projectID
  main_styles,         \* MainComponent.styles: the raw value of the styles form
  stepIndex,           \* MainComponent.stepIndex
  stepperChanged,      \* MainComponent.stepperChanged
  sharingDataChanged,  \* MainComponent.sharingDataChanged
  generatedSharingId,  \* MainComponent.generatedSharingId
  sharingUrl,          \* sharingFormGroup.controls.sharingUrl.value: '' is <<>>
  saves,               \* the storeShareableData requests not yet answered
  documents            \* the documents of the shared storage, in the order written

shareVars == <<jobID, projectID, main_styles, stepIndex, stepperChanged, sharingDataChanged,
               generatedSharingId, sharingUrl, saves, documents>>

restVars == <<formVars, iconVars, bindVars, shareVars>>

styleVars == <<serviceVars, mapVars, queryVars, restVars>>

\* row[property] of a row object
RowGet(row, property) ==
  IF property \in DOMAIN row THEN row[property] ELSE Undefined

\* Variant: the range is handed to the scale unparsed.
ParsedRange_raw(propName, rule) == [i \in 1..Len(rule.range) |-> Str(rule.range[i])]

\* rule.range.map((v) => prop.parse(v))
ParsedRange(propName, rule) ==
  [i \in 1..Len(rule.range) |-> PropParse(propName, Str(rule.range[i]))]

\* rule.domain.map(Number)
NumericDomain(rule) ==
  [i \in 1..Len(rule.domain) |-> NumberOfString(rule.domain[i])]

\* Variant: the interval range lacks the appended default.
BuildScale_noTerminalDefault(propName, rule) ==
  CASE rule.function = "categorical" ->
         scaleOrdinal(rule.domain, ParsedRange(propName, rule), DEFAULT_STYLES[propName])
    [] rule.function = "interval" ->
         scaleThreshold(NumericDomain(rule), ParsedRange(propName, rule))
    [] rule.function = "linear" ->
         scaleLinear(NumericDomain(rule), ParsedRange(propName, rule))

\* Variant: the linear scale is built with clamp(true).
BuildScale_clamped(propName, rule) ==
  CASE rule.function = "categorical" ->
         scaleOrdinal(rule.domain, ParsedRange(propName, rule), DEFAULT_STYLES[propName])
    [] rule.function = "interval" ->
         scaleThreshold(NumericDomain(rule),
                        Append(ParsedRange(propName, rule), DEFAULT_STYLES[propName]))
    [] rule.function = "linear" ->
         [scaleLinear(NumericDomain(rule), ParsedRange(propName, rule)) EXCEPT !.clamp = TRUE]

\* The scale parseStyle constructs on a cache miss, by rule.function.
BuildScale(propName, rule) ==
  CASE rule.function = "categorical" ->
         scaleOrdinal(rule.domain, ParsedRange(propName, rule), DEFAULT_STYLES[propName])
    [] rule.function = "interval" ->
         scaleThreshold(NumericDomain(rule),
                        Append(ParsedRange(propName, rule), DEFAULT_STYLES[propName]))
    [] rule.function = "linear" ->
         scaleLinear(NumericDomain(rule), ParsedRange(propName, rule))

\* return v; constructed tells whether the call built a scale on the way
Returns(v, cache, constructed) ==
  [threw |-> FALSE, value |-> v, cache |-> cache, constructed |-> constructed]

\* Variant: the final throw is missing and the call falls off the end.
Throws_fallsThrough(name, cache) ==
  [threw |-> FALSE, value |-> Undefined, cache |-> cache, constructed |-> FALSE]

\* throw new Error('Unknown style rule function: ' + rule.function)
Throws(name, cache) ==
  [threw |-> TRUE, error |-> name, cache |-> cache, constructed |-> FALSE]

\* Variant: the empty static value is parsed instead of defaulted.
StaticValue_parsesEmpty(propName, rule) == PropParse(propName, Str(rule.value))

\* rule.value ? prop.parse(rule.value) : DEFAULT_STYLES[propName]
StaticValue(propName, rule) ==
  IF rule.value # "" THEN PropParse(propName, Str(rule.value)) ELSE DEFAULT_STYLES[propName]

\* Variant: the row value is used verbatim, without the parser of the property.
IdentityValue_verbatim(propName, row, rule) == RowGet(row, rule.property)

\* prop.parse(row[rule.property])
IdentityValue(propName, row, rule) == PropParse(propName, RowGet(row, rule.property))

\* Variant: && in place of ||.
IsIncomplete_both(rule) == rule.property = "" /\ rule.function = ""

\* !rule.property || !rule.function
IsIncomplete(rule) == rule.property = "" \/ rule.function = ""

\* Variant: the constructed scale is not put into the cache.
parseStyle_noStore(cache, propName, row, id, rule) ==
  LET scale == cache[id]
      miss == scale = NoScale
      built == IF miss THEN BuildScale(propName, rule) ELSE scale
  IN  IF ~rule.isComputed
      THEN Returns(StaticValue(propName, rule), cache, FALSE)
      ELSE IF IsIncomplete(rule)
      THEN Returns(DEFAULT_STYLES[propName], cache, FALSE)
      ELSE IF rule.function = "identity"
      THEN Returns(IdentityValue(propName, row, rule), cache, FALSE)
      ELSE IF rule.function = "categorical"
      THEN Returns(ApplyScale(built, RowGet(row, rule.property)), cache, miss)
      ELSE IF rule.function \in {"interval", "linear"}
      THEN Returns(ApplyScale(built, parseNumber(RowGet(row, rule.property))), cache, miss)
      ELSE Throws(rule.function, cache)

\* Variant: the failing call drops the rule's cache entry on its way out.
parseStyle_evictsOnThrow(cache, propName, row, id, rule) ==
  LET scale == cache[id]
      miss == scale = NoScale
      built == IF miss THEN BuildScale(propName, rule) ELSE scale
      stored == [cache EXCEPT ![id] = built]
  IN  IF ~rule.isComputed
      THEN Returns(StaticValue(propName, rule), cache, FALSE)
      ELSE IF IsIncomplete(rule)
      THEN Returns(DEFAULT_STYLES[propName], cache, FALSE)
      ELSE IF rule.function = "identity"
      THEN Returns(IdentityValue(propName, row, rule), cache, FALSE)
      ELSE IF rule.function = "categorical"
      THEN Returns(ApplyScale(built, RowGet(row, rule.property)), stored, miss)
      ELSE IF rule.function \in {"interval", "linear"}
      THEN Returns(ApplyScale(built, parseNumber(RowGet(row, rule.property))), stored, miss)
      ELSE Throws(rule.function, [cache EXCEPT ![id] = NoScale])

\* Variant: a cached scale is used only while it is the scale the rule's
\* present fields give, and is rebuilt otherwise.
parseStyle_keyedByContents(cache, propName, row, id, rule) ==
  LET scale == cache[id]
      miss == scale = NoScale \/ scale # BuildScale(propName, rule)
      built == IF miss THEN BuildScale(propName, rule) ELSE scale
      stored == [cache EXCEPT ![id] = built]
  IN  IF ~rule.isComputed
      THEN Returns(StaticValue(propName, rule), cache, FALSE)
      ELSE IF IsIncomplete(rule)
      THEN Returns(DEFAULT_STYLES[propName], cache, FALSE)
      ELSE IF rule.function = "identity"
      THEN Returns(IdentityValue(propName, row, rule), cache, FALSE)
      ELSE IF rule.function = "categorical"
      THEN Returns(ApplyScale(built, RowGet(row, rule.property)), stored, miss)
      ELSE IF rule.function \in {"interval", "linear"}
      THEN Returns(ApplyScale(built, parseNumber(RowGet(row, rule.property))), stored, miss)
      ELSE Throws(rule.function, cache)

\* parseStyle(propName, row, rule) with the cache as it is before the call:
\* the value returned or the function name the Error carries, and the cache
\* after the call.
parseStyle(cache, propName, row, id, rule) ==
  LET scale == cache[id]
      miss == scale = NoScale
      built == IF miss THEN BuildScale(propName, rule) ELSE scale
      stored == [cache EXCEPT ![id] = built]
  IN  IF ~rule.isComputed
      THEN Returns(StaticValue(propName, rule), cache, FALSE)
      ELSE IF IsIncomplete(rule)
      THEN Returns(DEFAULT_STYLES[propName], cache, FALSE)
      ELSE IF rule.function = "identity"
      THEN Returns(IdentityValue(propName, row, rule), cache, FALSE)
      ELSE IF rule.function = "categorical"
      THEN Returns(ApplyScale(built, RowGet(row, rule.property)), stored, miss)
      ELSE IF rule.function \in {"interval", "linear"}
      THEN Returns(ApplyScale(built, parseNumber(RowGet(row, rule.property))), stored, miss)
      ELSE Throws(rule.function, cache)

---------------------------------------------------------------------------
(* Inputs *)

\* Result rows: h is a string column, n a numeric (or null) column.
Rows ==
  { [h |-> Str("Good"), n |-> Num(5)],
    [h |-> Str("Poor"), n |-> Num(15)],
    [h |-> Str("Fair"), n |-> Num(25)],
    [h |-> Str("Z"), n |-> Num(30)],
    [h |-> Str("Good"), n |-> Num(30)],
    [h |-> Str("#fff"), n |-> Num(120)],
    [h |-> Str("10"), n |-> Null],
    [h |-> Str("20"), n |-> Rat(1, 2)] }

\* rule.property: empty, a column of the rows, or a column the rows lack.
RuleProperties == {"", "h", "n", "zz"}

\* rule.function: empty, the StyleFunctions names, or an unrecognised name.
RuleFunctions == {""} \cup StyleFunctionNames \cup {"bogus"}

\* rule.value
RuleValues == {"", "#4CAF50", "0.5"}

\* rule.domain and rule.range; the style form keeps the two the same length.
DomainRanges ==
  { << <<"Poor", "Fair", "Good">>, <<"#F44336", "#FFC107", "#4CAF50">> >>,
    << <<"10", "20">>, <<"#111", "#222">> >>,
    << <<"0", "60">>, <<"2", "24">> >>,
    << <<"0", "30", "60">>, <<"2", "24", "5">> >>,
    << <<>>, <<>> >> }

StyleRule(c, v, p, f, dr) ==
  [isComputed |-> c, value |-> v, property |-> p, function |-> f,
   domain |-> dr[1], range |-> dr[2]]

RuleSet ==
  { StyleRule(c, v, p, f, dr) :
      c \in BOOLEAN, v \in RuleValues, p \in RuleProperties, f \in RuleFunctions,
      dr \in DomainRanges }

\* Saturation of the per-rule build counter.
MaxBuilds == 2

\* In-place mutations of rule objects in one behaviour.
MaxMutations == 1

---------------------------------------------------------------------------
(* Operations of StylesService *)

EmptyCache == [id \in RuleIds |-> NoScale]

DEFAULT_BATCH_SIZE == 5

\* The fields of a MapComponent as its constructor leaves them.
MapConstructed ==
  /\ map = FALSE
  /\ _rows = <<>>
  /\ _features = <<>>
  /\ _styles = [name \in PropNames |-> 0]
  /\ _geoColumn = ""
  /\ _activeGeometryTypes = {}
  /\ _numChanges = 0
  /\ _batchSize = Num(DEFAULT_BATCH_SIZE)
  /\ _deckLayer = Null
  /\ _iterableDiffer = <<>>
  /\ _page = 0

\* The icon caches of a new StylesService: two empty maps.
IconsConstructed ==
  /\ iconCache = <<>>
  /\ imageCache = <<>>
  /\ iconsMade = 0
  /\ renders = <<>>
  /\ firstIcon = <<>>

\* createStyleFormGroup(): the domain and range arrays of a new form group
createStyleFormGroup == [domain |-> <<"", "">>, range |-> <<"", "">>]

\* The fields of a MainComponent after ngOnInit(), no request sent yet.
MainConstructed ==
  /\ forms = [name \in PropNames |-> createStyleFormGroup]
  /\ formEdits = 0
  /\ rowsBound = FALSE
  /\ geoColumnValue = ""
  /\ todo = <<>>
  /\ jobID = Undefined
  /\ projectID = Undefined
  /\ main_styles = "default"
  /\ stepIndex = 0
  /\ stepperChanged = FALSE
  /\ sharingDataChanged = FALSE
  /\ generatedSharingId = ""
  /\ sharingUrl = <<>>
  /\ saves = <<>>
  /\ documents = <<>>
  /\ pending = FALSE
  /\ main_rows = <<>>
  /\ stats = Undefined
  /\ cells = <<>>
  /\ pages = <<>>
  /\ inflight = <<>>
  /\ queryNo = 0

\* The rule takes a branch of parseStyle that calls a scale.
UsesScale(rule) ==
  rule.isComputed /\ ~IsIncomplete(rule)
    /\ rule.function \in {"categorical", "interval", "linear"}

\* The build stamps of the cached scales a call with this rule uses.
UsedStamps(cache, id, rule) ==
  IF UsesScale(rule) /\ cache[id] # NoScale THEN {stamp[id]} ELSE {}

\* parseStyle(propName, row, rules[id])
ParseStyle(propName, row, id) ==
  LET o == parseStyle(scaleCache, propName, row, id, rules[id])
      call == [op |-> "parseStyle", propName |-> propName, row |-> row, id |-> id,
               hit |-> scaleCache[id] # NoScale, recovered |-> hist[id] = "cleared",
               used |-> UsedStamps(scaleCache, id, rules[id])]
  IN  /\ last' = IF o.threw
                 THEN call @@ [outcome |-> "throw", error |-> o.error]
                 ELSE call @@ [outcome |-> "return", value |-> o.value]
      /\ scaleCache' = o.cache
      /\ builds' = IF o.constructed
                   THEN [builds EXCEPT ![id] = Min(@ + 1, MaxBuilds)]
                   ELSE builds
      /\ hist' = [hist EXCEPT ![id] = IF @ = "cleared" THEN "clean" ELSE @]
      /\ stamp' = IF o.constructed THEN [stamp EXCEPT ![id] = "current"] ELSE stamp
      /\ UNCHANGED <<rules, mutations, owner>>
      /\ UNCHANGED <<mapVars, queryVars, restVars>>

\* Variant: uncache() leaves the cached scales in place.
Uncache_keepsScales ==
  /\ builds' = [id \in RuleIds |-> 0]
  /\ hist' = [id \in RuleIds |-> IF hist[id] = "stale" THEN "cleared" ELSE hist[id]]
  /\ last' = NoCall
  /\ UNCHANGED <<rules, scaleCache, mutations, owner, stamp>>
  /\ UNCHANGED <<mapVars, queryVars, restVars>>

\* uncache()
Uncache ==
  /\ scaleCache' = EmptyCache
  /\ builds' = [id \in RuleIds |-> 0]
  /\ hist' = [id \in RuleIds |-> IF hist[id] = "stale" THEN "cleared" ELSE hist[id]]
  /\ stamp' = [id \in RuleIds |-> "none"]
  /\ last' = NoCall
  /\ UNCHANGED <<rules, mutations, owner>>
  /\ UNCHANGED <<mapVars, queryVars, restVars>>

\* The function names an edit in place switches a rule to.
EditedFunctions == {"identity", "exponential"}

\* rule.domain = dr[1]; rule.range = dr[2], on the rule object itself: the
\* cache key, the object's identity, stays the same.
SetDomainRange(id, dr) ==
  /\ mutations < MaxMutations
  /\ <<dr[1], dr[2]>> # <<rules[id].domain, rules[id].range>>
  /\ rules' = [rules EXCEPT ![id].domain = dr[1], ![id].range = dr[2]]
  /\ hist' = [hist EXCEPT ![id] = IF scaleCache[id] # NoScale THEN "stale" ELSE @]
  /\ mutations' = mutations + 1
  /\ last' = NoCall
  /\ UNCHANGED <<scaleCache, builds, owner, stamp>>
  /\ UNCHANGED <<mapVars, queryVars, restVars>>

\* rule.function = f, on the rule object itself.
SetFunction(id, f) ==
  /\ mutations < MaxMutations
  /\ f # rules[id].function
  /\ rules' = [rules EXCEPT ![id].function = f]
  /\ mutations' = mutations + 1
  /\ last' = NoCall
  /\ UNCHANGED <<scaleCache, builds, hist, owner, stamp>>
  /\ UNCHANGED <<mapVars, queryVars, restVars>>

StylesInit ==
  /\ \E r \in RuleSet : rules = [id \in RuleIds |-> r]
  /\ scaleCache = EmptyCache
  /\ last = NoCall
  /\ builds = [id \in RuleIds |-> 0]
  /\ hist = [id \in RuleIds |-> "clean"]
  /\ mutations = 0
  /\ \E propName \in PropNames : owner = [id \in RuleIds |-> propName]
  /\ stamp = [id \in RuleIds |-> "none"]
  /\ MapConstructed
  /\ MainConstructed
  /\ IconsConstructed

\* A caller resolving, row by row, the style property a rule object belongs
\* to, as MapComponent.getStyle does with styles[styleName].
StylesNext ==
  \/ \E row \in Rows : ParseStyle(owner[1], row, 1)
  \/ Uncache
  \/ \E f \in EditedFunctions : SetFunction(1, f)

SpecStyles == StylesInit /\ [][StylesNext]_styleVars

---------------------------------------------------------------------------
(* A caller of StylesService that holds two rule objects, resolves either of
   them for any property, and edits their fields in place *)

CacheIds == {1, 2}

CacheProps == {"fillColor", "circleRadius"}

CacheRows ==
  { [h |-> Str("Good"), n |-> Num(5)],
    [h |-> Str("Poor"), n |-> Num(5)],
    [h |-> Str("Poor"), n |-> Num(15)] }

CacheFunctions == {"identity", "categorical", "interval", "linear", "exponential"}

CacheDomainRanges ==
  { << <<"5", "15">>, <<"2", "24">> >>,
    << <<"15", "30">>, <<"#111", "#222">> >> }

CacheRules ==
  { StyleRule(TRUE, "", "n", f, dr) : f \in CacheFunctions, dr \in CacheDomainRanges }

CacheInit ==
  /\ \E r \in CacheRules : rules = [id \in RuleIds |-> r]
  /\ scaleCache = EmptyCache
  /\ last = NoCall
  /\ builds = [id \in RuleIds |-> 0]
  /\ hist = [id \in RuleIds |-> "clean"]
  /\ mutations = 0
  /\ owner = [id \in RuleIds |-> "any"]
  /\ stamp = [id \in RuleIds |-> "none"]
  /\ MapConstructed
  /\ MainConstructed
  /\ IconsConstructed

CacheNext ==
  \/ \E propName \in CacheProps, row \in CacheRows, id \in CacheIds :
       ParseStyle(propName, row, id)
  \/ Uncache
  \/ \E id \in CacheIds, dr \in CacheDomainRanges : SetDomainRange(id, dr)
  \/ \E id \in CacheIds, f \in EditedFunctions : SetFunction(id, f)

SpecCache == CacheInit /\ [][CacheNext]_styleVars

---------------------------------------------------------------------------
(* A caller of StylesService that resolves an interval rule whose breakpoints
   the user has listed in any order *)

\* rule.domain and rule.range of the interval rules: two and three numeric
\* breakpoints in every order.
IntervalDomainRanges ==
  { << d, <<"#111", "#222">> >> : d \in { <<"10", "20">>, <<"20", "10">> } }
    \cup { << d, <<"2", "24", "5">> >> :
             d \in { <<"0", "30", "60">>, <<"0", "60", "30">>, <<"30", "0", "60">>,
                     <<"30", "60", "0">>, <<"60", "0", "30">>, <<"60", "30", "0">> } }

IntervalProps == {"fillColor", "strokeWeight"}

IntervalInit ==
  /\ \E dr \in IntervalDomainRanges :
       rules = [id \in RuleIds |-> StyleRule(TRUE, "", "n", "interval", dr)]
  /\ scaleCache = EmptyCache
  /\ last = NoCall
  /\ builds = [id \in RuleIds |-> 0]
  /\ hist = [id \in RuleIds |-> "clean"]
  /\ mutations = 0
  /\ \E propName \in IntervalProps : owner = [id \in RuleIds |-> propName]
  /\ stamp = [id \in RuleIds |-> "none"]
  /\ MapConstructed
  /\ MainConstructed
  /\ IconsConstructed

IntervalNext ==
  \/ \E row \in Rows : ParseStyle(owner[1], row, 1)
  \/ Uncache
  \/ \E dr \in IntervalDomainRanges : SetDomainRange(1, dr)

SpecInterval == IntervalInit /\ [][IntervalNext]_styleVars

---------------------------------------------------------------------------
(* map.component.ts: MapComponent, with the parent component that binds its
   inputs and the deck.gl overlay that calls the layer's accessors *)

\* Rows the parent's rows array can hold at most.
MaxRows == 4

\* Texts of the geography column that JSON.parse accepts, with the type of
\* the geometry they hold; any other text makes JSON.parse throw.
GeometryLiterals == { <<"{Point}", "Point">>, <<"{Polygon}", "Polygon">> }

\* The k-th row of the query result.
QueryRow(k) ==
  [h |-> Str(<<"Good", "Poor", "Fair">>[(k % 3) + 1]),
   n |-> Num(5 * k),
   g |-> Str(<<"{Point}", "{Polygon}", "{oops">>[(k % 3) + 1])]

\* The arrays the parent assigns to its rows field, besides a copy of the
\* array it holds.
RowArrays == { <<>>, <<QueryRow(1), QueryRow(2)>> }

GeoColumns == {"", "g"}

Pages == {0, 1}

NoRule == StyleRule(FALSE, "", "", "", << <<>>, <<>> >>)

\* The styles objects the parent assigns: style name -> rule.
StyleSets ==
  { [fillColor |-> StyleRule(TRUE, "", "h", "categorical",
                             << <<"Poor", "Fair", "Good">>, <<"#F44336", "#FFC107", "#4CAF50">> >>),
     fillOpacity |-> StyleRule(FALSE, "0.5", "", "", << <<>>, <<>> >>),
     strokeColor |-> StyleRule(TRUE, "", "n", "interval", << <<"10", "20">>, <<"#111", "#222">> >>),
     strokeOpacity |-> NoRule,
     strokeWeight |-> StyleRule(TRUE, "", "n", "linear", << <<"0", "60">>, <<"2", "24">> >>),
     circleRadius |-> StyleRule(TRUE, "", "n", "identity", << <<>>, <<>> >>)],
    [fillColor |-> StyleRule(TRUE, "", "h", "categorical",
                             << <<"Good", "Poor">>, <<"#000", "#fff">> >>),
     fillOpacity |-> NoRule,
     strokeColor |-> StyleRule(FALSE, "#4CAF50", "", "", << <<>>, <<>> >>),
     strokeOpacity |-> NoRule,
     strokeWeight |-> StyleRule(TRUE, "", "n", "linear", << <<"0", "30", "60">>, <<"2", "24", "5">> >>),
     circleRadius |-> NoRule] }

\* The identity of the rule object styles[name].
RuleIdOf(name) == CHOOSE id \in RuleIds : StylePropNames[id] = name

\* JSON.parse(text)
JsonParse(text) ==
  IF \E l \in GeometryLiterals : l[1] = text
  THEN [ok |-> TRUE, value |-> [type |-> (CHOOSE l \in GeometryLiterals : l[1] = text)[2]]]
  ELSE [ok |-> FALSE]

Falsy(v) == v.t \in {"null", "undefined", "nan"} \/ v = Str("") \/ v = Num(0)

Feature(geometry, row) == [t |-> "feature", geometry |-> geometry, properties |-> row]

\* Variant: a row that fails to parse ends the conversion with no features.
RECURSIVE rowsToGeoJSON_abortsBatch(_, _)
rowsToGeoJSON_abortsBatch(rows, geoColumn) ==
  IF geoColumn = "" \/ rows = <<>> THEN <<>>
  ELSE LET n == Len(rows)
           row == rows[n]
           before == rowsToGeoJSON_abortsBatch(SubSeq(rows, 1, n - 1), geoColumn)
           text == RowGet(row, geoColumn)
           failed(k) == LET v == RowGet(rows[k], geoColumn)
                        IN  ~Falsy(v) /\ ~JsonParse(v.s).ok
       IN  IF \E k \in 1..n : failed(k) THEN <<>>
           ELSE IF Falsy(text) THEN before
           ELSE Append(before, Feature(JsonParse(text.s).value, row))

\* GeoJSONService.rowsToGeoJSON(rows, geoColumn): features[n] is the array of
\* features after forEach has visited the first n rows.
rowsToGeoJSON(rows, geoColumn) ==
  IF geoColumn = "" \/ rows = <<>> THEN <<>>
  ELSE LET features[n \in 0..Len(rows)] ==
             IF n = 0 THEN <<>>
             ELSE LET text == RowGet(rows[n], geoColumn)
                  IN  IF Falsy(text) THEN features[n - 1]
                      ELSE IF ~JsonParse(text.s).ok THEN features[n - 1]
                      ELSE Append(features[n - 1], Feature(JsonParse(text.s).value, rows[n]))
       IN  features[Len(rows)]

\* hasStroke()
hasStroke(types) ==
  types \cap {"LineString", "MultiLineString", "Polygon", "MultiPolygon"} # {}

\* resetBatching()
resetBatching ==
  /\ _numChanges' = 0
  /\ _batchSize' = Num(DEFAULT_BATCH_SIZE)

\* updateFeatures(), run after the handler's own assignments to _rows and
\* _geoColumn.
updateFeatures ==
  IF ~map
  THEN UNCHANGED <<_features, _activeGeometryTypes>>
  ELSE /\ _features' = rowsToGeoJSON(_rows', _geoColumn')
       /\ _activeGeometryTypes' = {_features'[i].geometry.type : i \in DOMAIN _features'}

\* new GeoJsonLayer({data, stroked, ...}); the accessors are those of Render.
GeoJsonLayer(features, page, types) ==
  [data |-> IF page = 0 THEN features ELSE <<At(features, page - 1)>>,
   stroked |-> hasStroke(types)]

\* The stamps once a further re-style trigger has begun.
Aged(st) == [id \in RuleIds |-> IF st[id] = "current" THEN "earlier" ELSE st[id]]

Uncached(h) == [id \in RuleIds |-> IF h[id] = "stale" THEN "cleared" ELSE h[id]]

\* Variant: updateStyles() without this.styler.uncache().
updateStyles_noUncache(h) ==
  /\ last' = NoCall
  /\ IF ~map
     THEN /\ hist' = h
          /\ stamp' = Aged(stamp)
          /\ UNCHANGED <<scaleCache, builds, _deckLayer>>
     ELSE /\ hist' = h
          /\ stamp' = Aged(stamp)
          /\ UNCHANGED <<scaleCache, builds>>
          /\ _deckLayer' = [t |-> "overlay",
                          layers |-> <<GeoJsonLayer(_features', _page', _activeGeometryTypes')>>]

\* updateStyles(), run after updateFeatures() and the handler's own
\* assignments; h is hist as the handler's assignments left it.
updateStyles(h) ==
  /\ last' = NoCall
  /\ IF ~map
     THEN /\ hist' = h
          /\ stamp' = Aged(stamp)
          /\ UNCHANGED <<scaleCache, builds, _deckLayer>>
     ELSE /\ scaleCache' = EmptyCache
          /\ builds' = [id \in RuleIds |-> 0]
          /\ hist' = Uncached(h)
          /\ stamp' = [id \in RuleIds |-> "none"]
          /\ _deckLayer' = [t |-> "overlay",
                          layers |-> <<GeoJsonLayer(_features', _page', _activeGeometryTypes')>>]

\* set rows(rows): what the setter does to the component and its styler
rowsSetter(rows) ==
  /\ _rows' = rows
  /\ resetBatching
  /\ UNCHANGED <<map, _styles, _geoColumn, _iterableDiffer, _page, rules, mutations, owner>>
  /\ updateFeatures
  /\ updateStyles(hist)

\* The parent assigns a rows array and change detection hands it over.
SetRows(rows) ==
  /\ rowsSetter(rows)
  /\ UNCHANGED <<queryVars, restVars>>

\* set geoColumn(geoColumn): what the setter does to the component and its
\* styler
geoColumnSetter(geoColumn) ==
  /\ _geoColumn' = geoColumn
  /\ UNCHANGED <<map, _rows, _styles, _numChanges, _batchSize, _iterableDiffer, _page,
                 rules, mutations, owner>>
  /\ updateFeatures
  /\ updateStyles(hist)

\* The parent's geoColumn changes and change detection hands it over.
SetGeoColumn(geoColumn) ==
  /\ geoColumnSetter(geoColumn)
  /\ UNCHANGED <<queryVars, restVars>>

\* set page(page)
SetPage(page) ==
  /\ _page' = page
  /\ UNCHANGED <<queryVars, restVars>>
  /\ UNCHANGED <<map, _rows, _features, _activeGeometryTypes, _styles, _geoColumn,
                 _numChanges, _batchSize, _iterableDiffer, rules, mutations, owner>>
  /\ updateStyles(hist)

\* set styles(styles): the rule objects of the new styles object take the
\* place of those of the old one, name by name.
SetStyles(styles) ==
  LET newRules == [id \in RuleIds |-> styles[StylePropNames[id]]]
      replaced == [id \in RuleIds |->
                     IF scaleCache[id] # NoScale /\ newRules[id] # rules[id]
                     THEN "stale" ELSE hist[id]]
  IN  /\ _styles' = [name \in PropNames |-> RuleIdOf(name)]
      /\ UNCHANGED <<queryVars, restVars>>
      /\ rules' = newRules
      /\ UNCHANGED <<map, _rows, _features, _activeGeometryTypes, _geoColumn,
                     _numChanges, _batchSize, _iterableDiffer, _page, mutations, owner>>
      /\ updateStyles(replaced)

\* The parent appends a page of the query result to the array it shares
\* with the component: this.rows.push(...rows).
PushRows ==
  /\ Len(_rows) < MaxRows
  /\ _rows' = Append(_rows, QueryRow(Len(_rows) + 1))
  /\ UNCHANGED <<map, _features, _styles, _geoColumn, _activeGeometryTypes, _numChanges,
                 _batchSize, _deckLayer, _iterableDiffer, _page>>
  /\ UNCHANGED <<serviceVars, queryVars, restVars>>

\* ngDoCheck(): what the hook does to the component and its styler
doCheck ==
  LET changes == _rows # _iterableDiffer
      refresh == changes /\ NumLe(_batchSize, Num(_numChanges + 1))
  IN  /\ _iterableDiffer' = _rows
      /\ UNCHANGED <<map, _rows, _styles, _geoColumn, _page, rules, mutations, owner>>
      /\ IF refresh
         THEN /\ updateFeatures
              /\ updateStyles(hist)
              /\ _numChanges' = 0
              /\ _batchSize' = NumMul(_batchSize, Rat(3, 2))
         ELSE /\ _numChanges' = IF changes THEN _numChanges + 1 ELSE _numChanges
              /\ UNCHANGED <<_features, _activeGeometryTypes, _batchSize, _deckLayer,
                             scaleCache, last, builds, hist, stamp>>

\* A change detection pass of the parent reaches the component.
ngDoCheck ==
  /\ doCheck
  /\ UNCHANGED <<queryVars, restVars>>

\* The callback of ngAfterViewInit(), once the Maps API and the basemap
\* styles have loaded.
ngAfterViewInit ==
  /\ ~map
  /\ map' = TRUE
  /\ _deckLayer' = [t |-> "overlay", layers |-> <<>>]
  /\ UNCHANGED <<_rows, _features, _styles, _geoColumn, _activeGeometryTypes, _numChanges,
                 _batchSize, _iterableDiffer, _page>>
  /\ UNCHANGED <<serviceVars, queryVars, restVars>>

\* The layer's accessors, with the style names each resolves in order.
AccessorProps ==
  [getFillColor |-> <<"fillColor", "fillOpacity">>,
   getLineColor |-> <<"strokeColor", "strokeOpacity">>,
   getLineWidth |-> <<"strokeWeight">>,
   getRadius |-> <<"circleRadius">>]

\* A TypeError raised before (entered = FALSE) or inside parseStyle.
TypeError(cache, entered) ==
  [threw |-> TRUE, error |-> "TypeError", cache |-> cache, constructed |-> FALSE,
   entered |-> entered]

\* getStyle(feature, this._styles, styleName) with the cache as it is before
\* the call.
getStyle(cache, feature, styleName) ==
  IF feature.t = "undefined" THEN TypeError(cache, FALSE)
  ELSE IF _styles[styleName] = 0 THEN TypeError(cache, TRUE)
  ELSE [entered |-> TRUE] @@
       parseStyle(cache, styleName, feature.properties, _styles[styleName],
                  rules[_styles[styleName]])

\* color.match(colorRe) finds the three channels: of the strings of the
\* model, those d3-color prints.
MatchesColorRe(v) == v.t = "rgb"

IsString(v) == v.t \in {"str", "rgb"}

\* The fourth channel of [...color, opacity * 256], which getFillColor and
\* getLineColor return.
AlphaChannel(opacity) == NumMul(parseNumber(opacity), Num(256))

\* The calls of one accessor run on datum d: the outcome of each getStyle
\* call made, with the rule it resolved and the cache before it.
AccessorRun(accessor, d) ==
  LET props == AccessorProps[accessor]
      o1 == getStyle(scaleCache, d, props[1])
      more == /\ Len(props) = 2
              /\ ~o1.threw
              /\ (IsString(o1.value) => MatchesColorRe(o1.value))
      c1 == [o |-> o1, propName |-> props[1], id |-> _styles[props[1]], before |-> scaleCache]
  IN  IF more
      THEN <<c1, [o |-> getStyle(o1.cache, d, props[2]), propName |-> props[2],
                  id |-> _styles[props[2]], before |-> o1.cache]>>
      ELSE <<c1>>

\* deck.gl calls an accessor of the current layer on the i-th datum; last
\* holds the accessor's last getStyle call and, for a colour accessor that
\* returns, the alpha channel of the colour returned.
Render(accessor, i) ==
  /\ _deckLayer.t = "overlay"
  /\ _deckLayer.layers # <<>>
  /\ i \in DOMAIN _deckLayer.layers[1].data
  /\ \E run \in {AccessorRun(accessor, _deckLayer.layers[1].data[i])} :
       LET final == run[Len(run)]
           calls == {j \in DOMAIN run : run[j].o.entered /\ run[j].id # 0}
           built == {run[j].id : j \in {k \in calls : run[k].o.constructed}}
           call == [op |-> "parseStyle", propName |-> final.propName,
                    row |-> _deckLayer.layers[1].data[i].properties, id |-> final.id,
                    hit |-> final.id # 0 /\ final.before[final.id] # NoScale,
                    recovered |-> final.id # 0 /\ hist[final.id] = "cleared",
                    used |-> UNION {UsedStamps(run[j].before, run[j].id, rules[run[j].id]) :
                                      j \in calls}]
       IN  /\ scaleCache' = final.o.cache
           /\ last' = IF ~final.o.entered THEN last
                      ELSE IF final.o.threw
                      THEN call @@ [outcome |-> "throw", error |-> final.o.error]
                      ELSE IF Len(run) = 2
                      THEN call @@ [outcome |-> "return", value |-> final.o.value,
                                    alpha |-> AlphaChannel(final.o.value)]
                      ELSE call @@ [outcome |-> "return", value |-> final.o.value]
           /\ builds' = [id \in RuleIds |->
                           IF id \in built THEN Min(builds[id] + 1, MaxBuilds) ELSE builds[id]]
           /\ hist' = [id \in RuleIds |->
                         IF id \in {run[j].id : j \in calls} /\ hist[id] = "cleared"
                         THEN "clean" ELSE hist[id]]
           /\ stamp' = [id \in RuleIds |-> IF id \in built THEN "current" ELSE stamp[id]]
  /\ UNCHANGED <<rules, mutations, owner>>
  /\ UNCHANGED <<mapVars, queryVars, restVars>>

Accessors == DOMAIN AccessorProps

MapInit ==
  /\ rules = [id \in RuleIds |-> NoRule]
  /\ scaleCache = EmptyCache
  /\ last = NoCall
  /\ builds = [id \in RuleIds |-> 0]
  /\ hist = [id \in RuleIds |-> "clean"]
  /\ mutations = 0
  /\ owner = [id \in RuleIds |-> StylePropNames[id]]
  /\ stamp = [id \in RuleIds |-> "none"]
  /\ MapConstructed
  /\ MainConstructed
  /\ IconsConstructed

MapNext ==
  \/ ngAfterViewInit
  \/ \E rows \in RowArrays \cup {_rows} : SetRows(rows)
  \/ \E geoColumn \in GeoColumns : SetGeoColumn(geoColumn)
  \/ \E page \in Pages : SetPage(page)
  \/ \E styles \in StyleSets : SetStyles(styles)
  \/ PushRows
  \/ ngDoCheck
  \/ \E accessor \in Accessors, i \in 1..MaxRows : Render(accessor, i)

SpecMap == MapInit /\ [][MapNext]_styleVars

---------------------------------------------------------------------------
(* geojson.service.ts: rowsToGeoJSON on its own *)

\* Rows of one array handed to rowsToGeoJSON.
MaxGeoRows == 3

\* Result rows after normalizeRows, whose geography column g holds the text
\* of ST_AsGeoJson, which may be cut short or empty, or null.
GeoRows ==
  { [h |-> Str("Good"), n |-> Num(1), g |-> Str("{Point}")],
    [h |-> Str("Poor"), n |-> Num(2), g |-> Str("{Polygon}")],
    [h |-> Str("Fair"), n |-> Num(3), g |-> Str("{oops")],
    [h |-> Str("Good"), n |-> Num(4), g |-> Str("")],
    [h |-> Str("Poor"), n |-> Num(5), g |-> Null] }

Array(items) == [t |-> "array", items |-> items]

\* The rows arguments: an array of rows, null or undefined.
GeoRowArrays ==
  {Null, Undefined}
    \cup {Array(items) : items \in UNION {[1..n -> GeoRows] : n \in 0..MaxGeoRows}}

\* The geoColumn arguments: none, the geography column, a text column and a
\* column the rows do not have.
GeoColumnNames == {"", "g", "h", "WKT"}

\* GeoJSONService.rowsToGeoJSON(rows, geoColumn) runs on the arguments of the
\* call that last holds.
RowsToGeoJSON ==
  /\ last.op = "call"
  /\ last' = [op |-> "rowsToGeoJSON", rows |-> last.rows, geoColumn |-> last.geoColumn,
              value |-> IF Falsy(last.rows) THEN <<>>
                        ELSE rowsToGeoJSON(last.rows.items, last.geoColumn)]
  /\ UNCHANGED <<rules, scaleCache, builds, hist, mutations, owner, stamp>>
  /\ UNCHANGED <<mapVars, queryVars, restVars>>

\* A caller is about to call rowsToGeoJSON(rows, geoColumn).
GeoInit ==
  /\ rules = [id \in RuleIds |-> NoRule]
  /\ scaleCache = EmptyCache
  /\ \E rows \in GeoRowArrays, geoColumn \in GeoColumnNames :
       last = [op |-> "call", rows |-> rows, geoColumn |-> geoColumn]
  /\ builds = [id \in RuleIds |-> 0]
  /\ hist = [id \in RuleIds |-> "clean"]
  /\ mutations = 0
  /\ owner = [id \in RuleIds |-> StylePropNames[id]]
  /\ stamp = [id \in RuleIds |-> "none"]
  /\ MapConstructed
  /\ MainConstructed
  /\ IconsConstructed

GeoNext == RowsToGeoJSON

SpecGeo == GeoInit /\ [][GeoNext]_styleVars

---------------------------------------------------------------------------
(* bigquery.service.ts: normalizeRows and the statistics of a numeric column *)

PosInfinity == [t |-> "inf", sign |-> 1]
NegInfinity == [t |-> "inf", sign |-> -1]

\* a < b for numbers and infinities
ExtLt(a, b) ==
  CASE a.t = "inf" /\ b.t = "inf" -> a.sign < b.sign
    [] a.t = "inf" /\ b.t = "num" -> a.sign < 0
    [] a.t = "num" /\ b.t = "inf" -> b.sign > 0
    [] a.t = "num" /\ b.t = "num" -> NumLt(a, b)
    [] OTHER -> FALSE

\* Math.max(a, b), Math.min(a, b)
MathMax(a, b) == IF IsNaN(a) \/ IsNaN(b) THEN NaN ELSE IF ExtLt(a, b) THEN b ELSE a
MathMin(a, b) == IF IsNaN(a) \/ IsNaN(b) THEN NaN ELSE IF ExtLt(b, a) THEN b ELSE a

\* Math.round(x * 1000) / 1000
RoundMilli(x) ==
  IF IsNum(x) THEN Rat(MathRound(NumMul(x, Num(1000))), 1000) ELSE x

\* The columns of the result as query() normalizes them.
NormalizedCols ==
  <<[name |-> "h", type |-> "string"], [name |-> "n", type |-> "number"],
    [name |-> "g", type |-> "string"]>>

\* stats.set(field.name, {min: Infinity, max: -Infinity, nulls: 0})
InitialStat == [min |-> PosInfinity, max |-> NegInfinity, nulls |-> 0]

\* v === '' || v === null ? null : Number(v)
NumberCell(v) == IF v = Str("") \/ v = Null THEN Null ELSE parseNumber(v)

\* v === null ? null : String(v)
StringCell(v) == IF v = Null THEN Null ELSE Str(JsString(v))

\* Variant: only null counts as a missing cell, the empty string is Number('').
StatCell_emptyIsZero(stat, v) ==
  LET n == IF v = Null THEN Null ELSE parseNumber(v)
  IN  IF n = Null
      THEN [stat EXCEPT !.nulls = @ + 1]
      ELSE [stat EXCEPT !.max = RoundMilli(MathMax(stat.max, n)),
                        !.min = RoundMilli(MathMin(stat.min, n))]

\* The body of normalizeRows for one cell of a numeric column: the ColumnStat
\* after the cell.
StatCell(stat, v) ==
  LET n == NumberCell(v)
  IN  IF n = Null
      THEN [stat EXCEPT !.nulls = @ + 1]
      ELSE [stat EXCEPT !.max = RoundMilli(MathMax(stat.max, n)),
                        !.min = RoundMilli(MathMin(stat.min, n))]

\* normalizeRows(rawRows, normalizedCols, stats) for raw rows <<h, n, g>>: the row
\* objects returned and the ColumnStat of column n after the call.
RECURSIVE normalizeRows(_, _)
normalizeRows(rawRows, stat) ==
  IF rawRows = <<>> THEN [rows |-> <<>>, stat |-> stat]
  ELSE LET k == Len(rawRows)
           before == normalizeRows(SubSeq(rawRows, 1, k - 1), stat)
           rowObject == [h |-> StringCell(rawRows[k][1]), n |-> NumberCell(rawRows[k][2]),
                         g |-> StringCell(rawRows[k][3])]
       IN  [rows |-> Append(before.rows, rowObject),
            stat |-> StatCell(before.stat, rawRows[k][2])]

\* Cells of column n that one behaviour feeds to normalizeRows.
MaxCells == 4

\* Raw cells of the numeric column: JSON null, strings and numbers.
RawCells ==
  { Null, Str(""), Num(1), Num(3), Num(-2), Str("1.2346"), Str("-0.0004"), Str("abc") }

\* The raw rows of one response: none, one or two rows.
RawPages ==
  {<<>>} \cup { <<<<Str("Good"), c, Str("{Point}")>>>> : c \in RawCells }
         \cup { <<<<Str("Good"), c, Str("{Point}")>>, <<Null, d, Null>>>> : c, d \in RawCells }

\* const stats = new Map(); stats.set('n', {...}) of query()
NewStats ==
  /\ stats' = InitialStat
  /\ cells' = <<>>
  /\ UNCHANGED <<pending, main_rows, pages, inflight, queryNo>>
  /\ UNCHANGED <<serviceVars, mapVars, restVars>>

\* this.normalizeRows(response.result.rows, columns, stats)
NormalizeRows(rawRows) ==
  /\ stats # Undefined
  /\ Len(cells) + Len(rawRows) <= MaxCells
  /\ stats' = normalizeRows(rawRows, stats).stat
  /\ cells' = cells \o [i \in 1..Len(rawRows) |-> rawRows[i][2]]
  /\ UNCHANGED <<pending, main_rows, pages, inflight, queryNo>>
  /\ UNCHANGED <<serviceVars, mapVars, restVars>>

StatsInit == MapInit

StatsNext ==
  \/ NewStats
  \/ \E rawRows \in RawPages : NormalizeRows(rawRows)

SpecStats == StatsInit /\ [][StatsNext]_styleVars

---------------------------------------------------------------------------
(* main.component.ts: query() and getResults(), with the BigQuery server *)

MAX_PAGES == 25

\* Queries the user starts in one behaviour.
MaxQueries == 2

\* Result pages the server holds for one job: it returns a page token with
\* every page but the last it is willing to serve.
MaxJobPages == 28

\* The text of the geography column in page k of the q-th query: ST_AsGeoJson
\* of a point or a polygon, or a text cut short.
PageGeometry(q, k) == Str(<<"{Point}", "{Polygon}", "{oops">>[((q + k) % 3) + 1])

\* The raw rows <<h, n, g>> of page k (0: the first response) of the q-th
\* query.
PageRows(q, k) ==
  IF q % 2 = 1
  THEN << <<Str("Good"), <<Num(1), Null, Num(3), Num(-2)>>[(k % 4) + 1], PageGeometry(q, k)>> >>
  ELSE << <<Str("Poor"), <<Num(3), Str(""), Str("1.2346")>>[(k % 3) + 1], PageGeometry(q, k)>> >>

\* The raw cells of column n in raw rows.
CellsOf(rawRows) == [i \in 1..Len(rawRows) |-> rawRows[i][2]]

Remove(seq, i) == SubSeq(seq, 1, i - 1) \o SubSeq(seq, i + 1, Len(seq))

\* Variant: the statistics of a new query continue those of the last one.
QueryStats_reused == IF stats = Undefined THEN InitialStat ELSE stats

\* const stats = new Map(); stats.set(field.name, {min: Infinity, ...})
QueryStats == InitialStat

\* Variant: the request for a page is issued twice.
getResults_twice(count, token, jobId, rest) ==
  IF token = 0 \/ count >= MAX_PAGES
  THEN /\ inflight' = rest
       /\ pending' = FALSE
  ELSE /\ inflight' = rest \o <<[kind |-> "page", q |-> jobId, token |-> token, count |-> count + 1],
                                [kind |-> "page", q |-> jobId, token |-> token, count |-> count + 1]>>
       /\ pending' = pending

\* MainComponent.getResults(count, ..., inputPageToken, ..., jobId), called
\* from the handler of a response, rest being the requests still unanswered;
\* the job is named by the number of the query that created it.  When it
\* returns without a request the promise chain of query() runs to its end,
\* which resets pending.
getResults(count, token, jobId, rest) ==
  IF token = 0 \/ count >= MAX_PAGES
  THEN /\ inflight' = rest
       /\ pending' = FALSE
  ELSE /\ inflight' = Append(rest, [kind |-> "page", q |-> jobId, token |-> token, count |-> count + 1])
       /\ pending' = pending

\* The rejection of a promise of the chain of query(): .catch shows the
\* message, the last .then resets pending.
Rejected(rest) ==
  /\ inflight' = rest
  /\ pending' = FALSE
  /\ UNCHANGED <<main_rows, stats, cells, pages>>

\* The project ids the data form holds when query() is called.
ProjectIds == {"", "my-project"}

\* Variant: query() without the test of pending.
Query_noPendingTest(projectId) ==
  /\ queryNo < MaxQueries
  /\ last' = [op |-> "query", pending |-> pending, projectId |-> projectId]
  /\ pending' = TRUE
  /\ queryNo' = queryNo + 1
  /\ inflight' = IF projectId = "" THEN inflight
                 ELSE Append(inflight, [kind |-> "dryRun", q |-> queryNo + 1])
  /\ UNCHANGED <<main_rows, stats, cells, pages>>
  /\ UNCHANGED <<rules, scaleCache, builds, hist, mutations, owner, stamp>>
  /\ UNCHANGED <<mapVars, restVars>>

\* query(), up to the dry-run request, projectId being the project id of the
\* data form: it returns at once while pending; otherwise it sets pending and
\* calls this._dryRun().then(...).  With an empty project id _dryRun()
\* returns undefined without a request, .then on it raises a TypeError out of
\* query(), and the chain whose last step resets pending is never built.
Query(projectId) ==
  /\ pending \/ queryNo < MaxQueries
  /\ last' = [op |-> "query", pending |-> pending, projectId |-> projectId]
  /\ IF pending
     THEN UNCHANGED <<pending, queryNo, inflight>>
     ELSE /\ pending' = TRUE
          /\ queryNo' = queryNo + 1
          /\ inflight' = IF projectId = "" THEN inflight
                         ELSE Append(inflight, [kind |-> "dryRun", q |-> queryNo + 1])
  /\ UNCHANGED <<main_rows, stats, cells, pages>>
  /\ UNCHANGED <<rules, scaleCache, builds, hist, mutations, owner, stamp>>
  /\ UNCHANGED <<mapVars, restVars>>

\* The dry run is answered: the query request follows, or the chain rejects.
DryRunResponse(i, ok) ==
  /\ i \in DOMAIN inflight
  /\ inflight[i].kind = "dryRun"
  /\ IF ok
     THEN /\ inflight' = Append(Remove(inflight, i), [kind |-> "query", q |-> inflight[i].q])
          /\ UNCHANGED <<pending, main_rows, stats, cells, pages>>
     ELSE Rejected(Remove(inflight, i))
  /\ UNCHANGED queryNo
  /\ UNCHANGED <<serviceVars, mapVars, restVars>>

\* The query request is answered: BigQueryService.query normalizes the first
\* page into new statistics, and query() takes rows and stats and calls
\* getResults(0, ...); more tells whether the response has a page token.
QueryResponse(i, outcome, more) ==
  /\ i \in DOMAIN inflight
  /\ inflight[i].kind = "query"
  /\ IF outcome = "ok"
     THEN LET q == inflight[i].q
              result == normalizeRows(PageRows(q, 0), QueryStats)
          IN  /\ main_rows' = result.rows
              /\ stats' = result.stat
              /\ cells' = CellsOf(PageRows(q, 0))
              /\ pages' = <<[q |-> q, k |-> 0]>>
              /\ getResults(0, IF more THEN 1 ELSE 0, q, Remove(inflight, i))
     ELSE Rejected(Remove(inflight, i))
  /\ UNCHANGED queryNo
  /\ UNCHANGED <<serviceVars, mapVars, restVars>>

\* A page request is answered: BigQueryService.getResults normalizes the page
\* into the statistics it was handed, and MainComponent.getResults appends the
\* rows and calls itself with the next token.
PageResponse(i, outcome, more) ==
  /\ i \in DOMAIN inflight
  /\ inflight[i].kind = "page"
  /\ IF outcome = "ok"
     THEN LET k == inflight[i].token
              q == inflight[i].q
              result == normalizeRows(PageRows(q, k), stats)
          IN  /\ main_rows' = main_rows \o result.rows
              /\ stats' = result.stat
              /\ cells' = cells \o CellsOf(PageRows(q, k))
              /\ pages' = Append(pages, [q |-> q, k |-> k])
              /\ getResults(inflight[i].count,
                            IF more /\ k + 1 < MaxJobPages THEN k + 1 ELSE 0,
                            q, Remove(inflight, i))
     ELSE Rejected(Remove(inflight, i))
  /\ UNCHANGED queryNo
  /\ UNCHANGED <<serviceVars, mapVars, restVars>>

QueryInit == MapInit

QueryNext ==
  \/ \E projectId \in ProjectIds : Query(projectId)
  \/ \E i \in 1..2, ok \in BOOLEAN : DryRunResponse(i, ok)
  \/ \E i \in 1..2, outcome \in {"ok", "error"}, more \in BOOLEAN :
       QueryResponse(i, outcome, more)
  \/ \E i \in 1..2, outcome \in {"ok", "error"}, more \in BOOLEAN :
       PageResponse(i, outcome, more)

SpecQuery == QueryInit /\ [][QueryNext]_styleVars

\* A request in flight is answered: it resolves or rejects.
Responses ==
  \/ \E i \in 1..2, ok \in BOOLEAN : DryRunResponse(i, ok)
  \/ \E i \in 1..2, outcome \in {"ok", "error"}, more \in BOOLEAN :
       QueryResponse(i, outcome, more)
  \/ \E i \in 1..2, outcome \in {"ok", "error"}, more \in BOOLEAN :
       PageResponse(i, outcome, more)

\* The component with a server that answers every request in the end.
SpecQueryLive == SpecQuery /\ WF_styleVars(Responses)

---------------------------------------------------------------------------
(* main.component.html: MainComponent with its <app-map [rows] [geoColumn]>:
   the paged query, the change detection passes and the map's inputs *)

\* Queries started in one behaviour of the component with its map.
MaxPagedQueries == 1

\* A change detection pass over <app-map>: the inputs whose values changed
\* are set in the order of the template, then ngDoCheck() runs.
detectChanges == <<[step |-> "rows"], [step |-> "geoColumn"], [step |-> "ngDoCheck"]>>

\* Variant: at the end of the pages getResults leaves this.rows as it is.
localRows_same == [rows |-> main_rows, bound |-> rowsBound]

\* var localRows = []; localRows.push(...this.rows); this.rows = localRows:
\* the same rows in a new array object, which the map does not hold yet.
localRows == [rows |-> main_rows, bound |-> FALSE]

\* Angular runs a change detection pass after an event.
Tick ==
  /\ todo = <<>>
  /\ todo' = detectChanges
  /\ UNCHANGED <<rowsBound, geoColumnValue>>
  /\ UNCHANGED <<serviceVars, mapVars, queryVars, formVars, iconVars, shareVars>>

\* The user picks the geography column in the schema form.
SelectGeoColumn(geoColumn) ==
  /\ todo = <<>>
  /\ geoColumnValue' = geoColumn
  /\ todo' = detectChanges
  /\ UNCHANGED rowsBound
  /\ UNCHANGED <<serviceVars, mapVars, queryVars, formVars, iconVars, shareVars>>

\* [rows]="rows": the setter runs when MainComponent.rows is another array
\* object than the one the map was given.
BindRows ==
  /\ todo # <<>>
  /\ Head(todo).step = "rows"
  /\ todo' = Tail(todo)
  /\ IF rowsBound
     THEN UNCHANGED <<serviceVars, mapVars, rowsBound>>
     ELSE /\ rowsSetter(main_rows)
          /\ rowsBound' = TRUE
  /\ UNCHANGED <<queryVars, formVars, iconVars, shareVars, geoColumnValue>>

\* [geoColumn]="schemaFormGroup.controls.geoColumn.value"
BindGeoColumn ==
  /\ todo # <<>>
  /\ Head(todo).step = "geoColumn"
  /\ todo' = Tail(todo)
  /\ IF geoColumnValue = _geoColumn
     THEN UNCHANGED <<serviceVars, mapVars>>
     ELSE geoColumnSetter(geoColumnValue)
  /\ UNCHANGED <<queryVars, formVars, iconVars, shareVars, rowsBound, geoColumnValue>>

\* ngDoCheck() of the map within the pass
DoCheck ==
  /\ todo # <<>>
  /\ Head(todo).step = "ngDoCheck"
  /\ todo' = Tail(todo)
  /\ doCheck
  /\ UNCHANGED <<queryVars, formVars, iconVars, shareVars, rowsBound, geoColumnValue>>

\* The query request resolves: query() takes rows and stats, patches the
\* geography column into the schema form and calls getResults(0, ...).
PagedQueryResponse(i, more) ==
  /\ todo = <<>>
  /\ i \in DOMAIN inflight
  /\ inflight[i].kind = "query"
  /\ LET q == inflight[i].q
         result == normalizeRows(PageRows(q, 0), QueryStats)
     IN  /\ main_rows' = result.rows
         /\ rowsBound' = FALSE
         /\ stats' = result.stat
         /\ cells' = CellsOf(PageRows(q, 0))
         /\ pages' = <<[q |-> q, k |-> 0]>>
         /\ geoColumnValue' = "g"
         /\ inflight' = Remove(inflight, i)
         /\ todo' = <<[step |-> "getResults", count |-> 0,
                       token |-> IF more THEN 1 ELSE 0, q |-> q]>>
  /\ UNCHANGED <<pending, queryNo>>
  /\ UNCHANGED <<serviceVars, mapVars, formVars, iconVars, shareVars>>

\* A page request resolves: getResults pushes the rows into this.rows, the
\* array the map holds too once it was bound, calls detectChanges() and then
\* itself with the next token.
PagedPageResponse(i, more) ==
  /\ todo = <<>>
  /\ i \in DOMAIN inflight
  /\ inflight[i].kind = "page"
  /\ LET k == inflight[i].token
         q == inflight[i].q
         result == normalizeRows(PageRows(q, k), stats)
     IN  /\ main_rows' = main_rows \o result.rows
         /\ _rows' = IF rowsBound THEN main_rows' ELSE _rows
         /\ stats' = result.stat
         /\ cells' = cells \o CellsOf(PageRows(q, k))
         /\ pages' = Append(pages, [q |-> q, k |-> k])
         /\ inflight' = Remove(inflight, i)
         /\ todo' = Append(detectChanges,
                           [step |-> "getResults", count |-> inflight[i].count,
                            token |-> IF more /\ k + 1 < MaxJobPages THEN k + 1 ELSE 0,
                            q |-> q])
  /\ UNCHANGED <<pending, queryNo, rowsBound, geoColumnValue>>
  /\ UNCHANGED <<map, _features, _styles, _geoColumn, _activeGeometryTypes, _numChanges,
                 _batchSize, _deckLayer, _iterableDiffer, _page>>
  /\ UNCHANGED <<serviceVars, formVars, iconVars, shareVars>>

\* getResults(count, ..., inputPageToken, ...) as the handler's next step: at
\* the end of the pages it replaces this.rows, and the last .then of query()
\* resets pending and calls detectChanges().
PagedGetResults ==
  /\ todo # <<>>
  /\ Head(todo).step = "getResults"
  /\ LET call == Head(todo)
     IN  /\ getResults(call.count, call.token, call.q, inflight)
         /\ IF call.token = 0 \/ call.count >= MAX_PAGES
            THEN /\ main_rows' = localRows.rows
                 /\ rowsBound' = localRows.bound
                 /\ todo' = detectChanges
            ELSE /\ UNCHANGED <<main_rows, rowsBound>>
                 /\ todo' = Tail(todo)
  /\ UNCHANGED <<stats, cells, pages, queryNo, geoColumnValue>>
  /\ UNCHANGED <<serviceVars, mapVars, formVars, iconVars, shareVars>>

\* Variant: the handler of a rejection starts from an empty result.
PagedRejection_clearsRows(i) ==
  /\ todo = <<>>
  /\ i \in DOMAIN inflight
  /\ inflight' = Remove(inflight, i)
  /\ pending' = FALSE
  /\ main_rows' = <<>>
  /\ UNCHANGED <<stats, cells, pages>>
  /\ last' = [op |-> "showMessage", kind |-> inflight[i].kind]
  /\ todo' = detectChanges
  /\ UNCHANGED <<queryNo, rowsBound, geoColumnValue>>
  /\ UNCHANGED <<rules, scaleCache, builds, hist, mutations, owner, stamp>>
  /\ UNCHANGED <<mapVars, formVars, iconVars, shareVars>>

\* A request rejects: .catch of query() shows the message, the last .then
\* resets pending and calls detectChanges().
PagedRejection(i) ==
  /\ todo = <<>>
  /\ i \in DOMAIN inflight
  /\ Rejected(Remove(inflight, i))
  /\ last' = [op |-> "showMessage", kind |-> inflight[i].kind]
  /\ todo' = detectChanges
  /\ UNCHANGED <<queryNo, rowsBound, geoColumnValue>>
  /\ UNCHANGED <<rules, scaleCache, builds, hist, mutations, owner, stamp>>
  /\ UNCHANGED <<mapVars, formVars, iconVars, shareVars>>

\* What the running handler does next.
HandlerSteps ==
  \/ BindRows
  \/ BindGeoColumn
  \/ DoCheck
  \/ PagedGetResults

\* A request in flight rejects or resolves once the running handler has
\* finished.
PagedResponses ==
  \/ \E i \in 1..2 : PagedRejection(i)
  \/ \E i \in 1..2 : todo = <<>> /\ DryRunResponse(i, TRUE)
  \/ \E i \in 1..2, more \in BOOLEAN : PagedQueryResponse(i, more)
  \/ \E i \in 1..2, more \in BOOLEAN : PagedPageResponse(i, more)

PagingInit == MapInit

PagingNext ==
  \/ todo = <<>> /\ ngAfterViewInit
  \/ Tick
  \/ \E geoColumn \in GeoColumns : SelectGeoColumn(geoColumn)
  \/ \E projectId \in ProjectIds :
       todo = <<>> /\ (pending \/ queryNo < MaxPagedQueries) /\ Query(projectId)
  \/ HandlerSteps
  \/ PagedResponses

SpecPaging ==
  /\ PagingInit
  /\ [][PagingNext]_styleVars
  /\ WF_styleVars(HandlerSteps)
  /\ SF_styleVars(PagedResponses)

---------------------------------------------------------------------------
(* main.component.ts: the sharing link *)

Step == [DATA |-> 0, SCHEMA |-> 1, STYLE |-> 2, SHARE |-> 3]

\* Queries the user starts in one behaviour of the sharing model.
MaxSharedQueries == 1

\* Sharing documents requested in one behaviour.
MaxSaves == 1

\* The ids the shared storage gives to the documents it writes, in order.
DocIds == <<"doc-1", "doc-2", "doc-3", "doc-4">>

\* The job id BigQuery gives to the q-th query.
JobIds == <<"job-1", "job-2", "job-3", "job-4">>

\* The route parameters 'project' and 'job': both of a job URL, or null from
\* paramMap.get for a URL without them.
RouteParams == {<<Null, Null>>, <<Str("my-project"), Str("job-0")>>}

\* The raw values the styles form can hold when it is valid.
StyleFormValues == {"default", "edited"}

\* The steps the user moves between.
StepIndexes == {Step.STYLE, Step.SHARE}

\* ngOnInit has run.
Initialised == jobID # Undefined

\* The sharing state and the rest of the map model stay as they are.
ShareFrame ==
  /\ UNCHANGED <<rules, scaleCache, builds, hist, mutations, owner, stamp>>
  /\ UNCHANGED <<mapVars, formVars, iconVars, bindVars>>

\* ngOnInit(): reads the route parameters.
ngOnInit(project, job) ==
  /\ ~Initialised
  /\ projectID' = project
  /\ jobID' = job
  /\ last' = [op |-> "ngOnInit"]
  /\ UNCHANGED <<main_styles, stepIndex, stepperChanged, sharingDataChanged,
                 generatedSharingId, sharingUrl, saves, documents>>
  /\ UNCHANGED queryVars
  /\ ShareFrame

\* Variant: the URL is cleared and the data is not marked as changed.
clearGeneratedSharingUrl_keepsFlag ==
  /\ generatedSharingId' = ""
  /\ sharingDataChanged' = sharingDataChanged
  /\ sharingUrl' = <<>>

\* clearGeneratedSharingUrl()
clearGeneratedSharingUrl ==
  /\ generatedSharingId' = ""
  /\ sharingDataChanged' = TRUE
  /\ sharingUrl' = <<>>

\* _hasJobParams(): !!(this.jobID && this.projectID)
_hasJobParams == ~Falsy(jobID) /\ ~Falsy(projectID)

\* saveDataToSharedStorage(), the document it hands to storeShareableData:
\* of its fields the job id and the styles, which are encrypted under the
\* wrapped SQL of the job.
shareableData == [jobID |-> jobID, styles |-> main_styles]

\* this.stepIndex == Step.SHARE && this.stepperChanged && this.sharingDataChanged
MayGenerate == stepIndex = Step.SHARE /\ stepperChanged /\ sharingDataChanged

\* generateSharingUrl(), up to the request to the shared storage.
generateSharingUrl ==
  /\ Initialised
  /\ IF ~_hasJobParams
     THEN /\ last' = [op |-> "showMessage", kind |-> "generateSharingUrl"]
          /\ UNCHANGED <<sharingDataChanged, saves>>
     ELSE IF MayGenerate
     THEN /\ Len(saves) + Len(documents) < MaxSaves
          /\ sharingDataChanged' = FALSE
          /\ saves' = Append(saves, shareableData)
          /\ last' = [op |-> "generateSharingUrl", stored |-> TRUE]
     ELSE /\ last' = [op |-> "generateSharingUrl", stored |-> FALSE]
          /\ UNCHANGED <<sharingDataChanged, saves>>
  /\ UNCHANGED <<jobID, projectID, main_styles, stepIndex, stepperChanged,
                 generatedSharingId, sharingUrl, documents>>
  /\ UNCHANGED queryVars
  /\ ShareFrame

\* storeShareableData answers: saveDataToSharedStorage takes the id of the
\* document written and generateSharingUrl shows the URL with it; or it
\* rejects and the message is shown.
SaveCompletes(i, ok) ==
  /\ i \in DOMAIN saves
  /\ saves' = Remove(saves, i)
  /\ IF ok
     THEN /\ documents' = Append(documents, saves[i])
          /\ generatedSharingId' = DocIds[Len(documents) + 1]
          /\ sharingUrl' = <<"?shareid=", DocIds[Len(documents) + 1]>>
          /\ last' = [op |-> "saved"]
     ELSE /\ last' = [op |-> "showMessage", kind |-> "save"]
          /\ UNCHANGED <<documents, generatedSharingId, sharingUrl>>
  /\ UNCHANGED <<jobID, projectID, main_styles, stepIndex, stepperChanged, sharingDataChanged>>
  /\ UNCHANGED queryVars
  /\ ShareFrame

\* onStepperChange(e)
onStepperChange(selectedIndex, previouslySelectedIndex) ==
  /\ Initialised
  /\ stepIndex' = selectedIndex
  /\ stepperChanged' = (selectedIndex # previouslySelectedIndex)
  /\ last' = [op |-> "onStepperChange"]
  /\ UNCHANGED <<jobID, projectID, main_styles, sharingDataChanged,
                 generatedSharingId, sharingUrl, saves, documents>>
  /\ UNCHANGED queryVars
  /\ ShareFrame

\* onApplyStylesClicked(): updateStyles() takes the raw value of the styles
\* form unless the form is invalid.
onApplyStylesClicked(valid, value) ==
  /\ Initialised
  /\ clearGeneratedSharingUrl
  /\ main_styles' = IF valid THEN value ELSE main_styles
  /\ last' = [op |-> "onApplyStylesClicked"]
  /\ UNCHANGED <<jobID, projectID, stepIndex, stepperChanged, saves, documents>>
  /\ UNCHANGED queryVars
  /\ ShareFrame

\* query() of the component with the sharing link, up to the dry-run request.
SharedQuery(projectId) ==
  /\ Initialised
  /\ pending \/ queryNo < MaxSharedQueries
  /\ last' = [op |-> "query", pending |-> pending, projectId |-> projectId]
  /\ IF pending
     THEN UNCHANGED <<pending, queryNo, inflight, projectID,
                      generatedSharingId, sharingDataChanged, sharingUrl>>
     ELSE /\ pending' = TRUE
          /\ queryNo' = queryNo + 1
          /\ projectID' = Str(projectId)
          /\ clearGeneratedSharingUrl
          /\ inflight' = IF projectId = "" THEN inflight
                         ELSE Append(inflight, [kind |-> "dryRun", q |-> queryNo + 1])
  /\ UNCHANGED <<main_rows, stats, cells, pages>>
  /\ UNCHANGED <<jobID, main_styles, stepIndex, stepperChanged, saves, documents>>
  /\ ShareFrame

\* The query request is answered: query() takes rows, stats and the job id and
\* calls getResults(0, ...), or the chain rejects.
SharedQueryResponse(i, outcome, more) ==
  /\ i \in DOMAIN inflight
  /\ inflight[i].kind = "query"
  /\ IF outcome = "ok"
     THEN LET q == inflight[i].q
              result == normalizeRows(PageRows(q, 0), QueryStats)
          IN  /\ main_rows' = result.rows
              /\ stats' = result.stat
              /\ cells' = CellsOf(PageRows(q, 0))
              /\ pages' = <<[q |-> q, k |-> 0]>>
              /\ jobID' = Str(JobIds[q])
              /\ getResults(0, IF more THEN 1 ELSE 0, q, Remove(inflight, i))
     ELSE /\ Rejected(Remove(inflight, i))
          /\ UNCHANGED jobID
  /\ UNCHANGED queryNo
  /\ UNCHANGED <<projectID, main_styles, stepIndex, stepperChanged, sharingDataChanged,
                 generatedSharingId, sharingUrl, saves, documents>>
  /\ UNCHANGED <<serviceVars, mapVars, formVars, iconVars, bindVars>>

ShareInit == MapInit

ShareNext ==
  \/ \E route \in RouteParams : ngOnInit(route[1], route[2])
  \/ \E selectedIndex \in StepIndexes, previouslySelectedIndex \in StepIndexes :
       onStepperChange(selectedIndex, previouslySelectedIndex)
  \/ \E valid \in BOOLEAN, value \in StyleFormValues : onApplyStylesClicked(valid, value)
  \/ generateSharingUrl
  \/ \E i \in 1..2, ok \in BOOLEAN : SaveCompletes(i, ok)
  \/ \E projectId \in ProjectIds : SharedQuery(projectId)
  \/ \E i \in 1..2, ok \in BOOLEAN : DryRunResponse(i, ok)
  \/ \E i \in 1..2, outcome \in {"ok", "error"}, more \in BOOLEAN :
       SharedQueryResponse(i, outcome, more)
  \/ \E i \in 1..2, outcome \in {"ok", "error"} : PageResponse(i, outcome, FALSE)

SpecShare == ShareInit /\ [][ShareNext]_styleVars

---------------------------------------------------------------------------
(* main.component.ts: convertToGeovizQuery and convertToUserQuery *)

\* A JavaScript string is modelled here as the sequence of its pieces: a
\* piece is one character, or a marker, or a fixed fragment of the template
\* that holds neither a newline nor a marker.
USER_QUERY_START_MARKER == "--__USER__QUERY__START__"
USER_QUERY_END_MARKER == "--__USER__QUERY__END__"

Text(pieces) == [t |-> "text", pieces |-> pieces]

\* The characters \s matches and trim() removes, of those the queries use.
IsSpace(c) == c \in {" ", "\n", "\t"}

\* String.prototype.trim
Trim(s) ==
  LET kept == {i \in DOMAIN s : ~IsSpace(s[i])}
  IN  IF kept = {} THEN <<>>
      ELSE SubSeq(s, CHOOSE i \in kept : \A j \in kept : i <= j,
                     CHOOSE i \in kept : \A j \in kept : j <= i)

\* userQuery.replace(/;\s*$/, ''): the match starts at the first semicolon
\* that only whitespace follows up to the end of the string.
ReplaceTrailingSemicolon(s) ==
  LET starts == {i \in DOMAIN s : s[i] = ";" /\ \A j \in (i + 1)..Len(s) : IsSpace(s[j])}
  IN  IF starts = {} THEN s
      ELSE SubSeq(s, 1, (CHOOSE i \in starts : \A j \in starts : i <= j) - 1)

\* s.split('\n'): the pieces between one newline and the next
Split(s) ==
  LET cuts == {i \in DOMAIN s : s[i] = "\n"}
      \* where the k-th newline stands; a string starts after newline 0 and
      \* ends before a last one
      CutAt(k) == IF k = 0 THEN 0
                  ELSE IF k > Cardinality(cuts) THEN Len(s) + 1
                  ELSE CHOOSE c \in cuts : Cardinality({d \in cuts : d <= c}) = k
  IN  [k \in 1..(Cardinality(cuts) + 1) |-> SubSeq(s, CutAt(k - 1) + 1, CutAt(k) - 1)]

\* The character U+0060, as a piece.
BACKQUOTE == "<backquote>"

\* names.map(f).join(', ') for f putting the name between two pieces
JoinNames(names, before, after) ==
  LET joined[n \in 0..Len(names)] ==
        IF n = 0 THEN <<>>
        ELSE (IF n = 1 THEN <<>> ELSE Append(joined[n - 1], ", "))
               \o <<before, names[n], after>>
  IN  joined[Len(names)]

\* n spaces of indentation
Spaces(n) == [i \in 1..n |-> " "]

\* const nonGeoClause = hasNonGeoColumns ? '* EXCEPT(<names>),' : ''
nonGeoClause(geoColumns, numCols) ==
  IF Len(geoColumns) < numCols
  THEN <<"* EXCEPT(">> \o JoinNames(geoColumns, BACKQUOTE, BACKQUOTE) \o <<"),">>
  ELSE <<>>

\* geoColumns.map((f) => 'ST_AsGeoJson(<name>) as <name>').join(', '), the
\* names in backquotes
geoClause(geoColumns) ==
  LET joined[n \in 0..Len(geoColumns)] ==
        IF n = 0 THEN <<>>
        ELSE (IF n = 1 THEN <<>> ELSE Append(joined[n - 1], ", "))
               \o <<"ST_AsGeoJson(", BACKQUOTE, geoColumns[n], BACKQUOTE, ") as ",
                    BACKQUOTE, geoColumns[n], BACKQUOTE>>
  IN  joined[Len(geoColumns)]

\* Variant: the user's query is wrapped as it is, semicolon included.
convertToGeovizQuery_keepsSemicolon(userQuery, geoColumns, numCols) ==
  <<"SELECT", "\n", " ", " ">> \o nonGeoClause(geoColumns, numCols)
    \o <<"\n", " ", " ">> \o geoClause(geoColumns)
    \o <<"\n", "FROM (", "\n", USER_QUERY_START_MARKER, "\n", "\n">>
    \o userQuery
    \o <<"\n", "\n", USER_QUERY_END_MARKER, "\n", "\n", ");">>

\* convertToGeovizQuery(userQuery, geoColumns, numCols) of main.component.ts:
\* every line of the wrapper ends with the newline of the template, the three
\* lines around the user's query with an escaped newline before it.
convertToGeovizQuery(userQuery, geoColumns, numCols) ==
  <<"SELECT", "\n", " ", " ">> \o nonGeoClause(geoColumns, numCols)
    \o <<"\n", " ", " ">> \o geoClause(geoColumns)
    \o <<"\n", "FROM (", "\n", USER_QUERY_START_MARKER, "\n", "\n">>
    \o ReplaceTrailingSemicolon(userQuery)
    \o <<"\n", "\n", USER_QUERY_END_MARKER, "\n", "\n", ");">>

\* convertToUserQuery(geovizQuery) of main.component.ts: the lines between a
\* line with the start marker and a line with the end marker, each followed
\* by a newline, trimmed.
convertToUserQuery(geovizQuery) ==
  IF geovizQuery.t \in {"null", "undefined"} THEN <<>>
  ELSE IF geovizQuery.pieces = <<>> THEN <<>>
  ELSE LET lines == Split(geovizQuery.pieces)
           Includes(line, marker) == \E i \in DOMAIN line : line[i] = marker
           each[n \in 0..Len(lines)] ==
             IF n = 0 THEN [userQueryStarted |-> FALSE, userQuery |-> <<>>]
             ELSE LET before == each[n - 1]
                  IN  IF Includes(lines[n], USER_QUERY_START_MARKER)
                      THEN [before EXCEPT !.userQueryStarted = TRUE]
                      ELSE IF Includes(lines[n], USER_QUERY_END_MARKER)
                      THEN [before EXCEPT !.userQueryStarted = FALSE]
                      ELSE IF before.userQueryStarted
                      THEN [before EXCEPT !.userQuery = (@ \o lines[n]) \o <<"\n">>]
                      ELSE before
       IN  Trim(each[Len(lines)].userQuery)

\* convertToGeovizQuery of the component with the sharing link: the same
\* clauses, the lines indented as in the template.
convertToGeovizQueryIndented(userQuery, geoColumns, numCols) ==
  <<"SELECT", " ">> \o nonGeoClause(geoColumns, numCols)
    \o <<"\n">> \o Spaces(21) \o geoClause(geoColumns)
    \o <<"\n">> \o Spaces(12) \o <<"FROM (", "\n">>
    \o Spaces(19) \o <<USER_QUERY_START_MARKER, "\n">>
    \o Spaces(19) \o ReplaceTrailingSemicolon(userQuery) \o <<"\n">>
    \o Spaces(19) \o <<USER_QUERY_END_MARKER, "\n">>
    \o Spaces(12) \o <<");">>

\* s.indexOf(marker), counted in pieces from 0; -1 when absent
IndexOf(s, marker) ==
  LET found == {i \in DOMAIN s : s[i] = marker}
  IN  IF found = {} THEN -1 ELSE (CHOOSE i \in found : \A j \in found : i <= j) - 1

\* s.substring(start, end): both clamped to 0..length and swapped when
\* start is the larger
Substring(s, start, end) ==
  LET Clamp(n) == IF n < 0 THEN 0 ELSE IF n > Len(s) THEN Len(s) ELSE n
      a == Clamp(start)
      b == Clamp(end)
  IN  IF a <= b THEN SubSeq(s, a + 1, b) ELSE SubSeq(s, b + 1, a)

\* convertToUserQuery(geovizQuery) of the component with the sharing link:
\* what stands between the two markers, trimmed, and a newline after it; a
\* marker is one piece, which is its length here.
convertToUserQueryBySubstring(geovizQuery) ==
  IF geovizQuery.t \in {"null", "undefined"} THEN <<>>
  ELSE IF geovizQuery.pieces = <<>> THEN <<>>
  ELSE Append(Trim(Substring(geovizQuery.pieces,
                             IndexOf(geovizQuery.pieces, USER_QUERY_START_MARKER) + 1,
                             IndexOf(geovizQuery.pieces, USER_QUERY_END_MARKER))),
              "\n")

\* The longest user query, in characters.
MaxQueryLen == 4

\* The characters of the user queries: a letter, the semicolon, whitespace.
QueryChars == {"a", ";", " ", "\n"}

\* The user queries: none of them holds a marker.
UserQueries == UNION {[1..n -> QueryChars] : n \in 0..MaxQueryLen}

\* The geography columns of the dry run and the number of all columns.
GeoColumnLists == {<<>>, <<"g">>, <<"g", "h">>}

\* The two components with these functions.
ConvertVersions == {"lines", "substring"}

\* convertToGeovizQuery(sql, geoColumns, numCols), as query() calls it.
ConvertToGeovizQuery ==
  /\ last.op = "userQuery"
  /\ last.version = "lines"
  /\ last' = [op |-> "geovizQuery", version |-> "lines", userQuery |-> last.userQuery,
              geovizQuery |-> Text(convertToGeovizQuery(last.userQuery.pieces,
                                                        last.geoColumns, last.numCols))]
  /\ UNCHANGED <<rules, scaleCache, builds, hist, mutations, owner, stamp>>
  /\ UNCHANGED <<mapVars, queryVars, restVars>>

ConvertToGeovizQueryIndented ==
  /\ last.op = "userQuery"
  /\ last.version = "substring"
  /\ last' = [op |-> "geovizQuery", version |-> "substring", userQuery |-> last.userQuery,
              geovizQuery |-> Text(convertToGeovizQueryIndented(last.userQuery.pieces,
                                                                last.geoColumns, last.numCols))]
  /\ UNCHANGED <<rules, scaleCache, builds, hist, mutations, owner, stamp>>
  /\ UNCHANGED <<mapVars, queryVars, restVars>>

\* convertToUserQuery(queryText.sql), as the restoring of a job calls it.
ConvertToUserQuery ==
  /\ last.op = "geovizQuery"
  /\ last.version = "lines"
  /\ last' = [op |-> "convertToUserQuery", version |-> "lines",
              userQuery |-> last.userQuery, geovizQuery |-> last.geovizQuery,
              value |-> convertToUserQuery(last.geovizQuery)]
  /\ UNCHANGED <<rules, scaleCache, builds, hist, mutations, owner, stamp>>
  /\ UNCHANGED <<mapVars, queryVars, restVars>>

ConvertToUserQueryBySubstring ==
  /\ last.op = "geovizQuery"
  /\ last.version = "substring"
  /\ last' = [op |-> "convertToUserQuery", version |-> "substring",
              userQuery |-> last.userQuery, geovizQuery |-> last.geovizQuery,
              value |-> convertToUserQueryBySubstring(last.geovizQuery)]
  /\ UNCHANGED <<rules, scaleCache, builds, hist, mutations, owner, stamp>>
  /\ UNCHANGED <<mapVars, queryVars, restVars>>

\* A caller is about to wrap a user query, or to unwrap the query text of a
\* job that is empty or missing.
ConvertInit ==
  /\ rules = [id \in RuleIds |-> NoRule]
  /\ scaleCache = EmptyCache
  /\ \E version \in ConvertVersions :
       \/ \E userQuery \in UserQueries, geoColumns \in GeoColumnLists, other \in {0, 1} :
            last = [op |-> "userQuery", version |-> version, userQuery |-> Text(userQuery),
                    geoColumns |-> geoColumns, numCols |-> Len(geoColumns) + other]
       \/ \E geovizQuery \in {Null, Undefined, Text(<<>>)} :
            last = [op |-> "geovizQuery", version |-> version, userQuery |-> Null,
                    geovizQuery |-> geovizQuery]
  /\ builds = [id \in RuleIds |-> 0]
  /\ hist = [id \in RuleIds |-> "clean"]
  /\ mutations = 0
  /\ owner = [id \in RuleIds |-> StylePropNames[id]]
  /\ stamp = [id \in RuleIds |-> "none"]
  /\ MapConstructed
  /\ MainConstructed
  /\ IconsConstructed

ConvertNext ==
  \/ ConvertToGeovizQuery
  \/ ConvertToGeovizQueryIndented
  \/ ConvertToUserQuery
  \/ ConvertToUserQueryBySubstring

SpecConvert == ConvertInit /\ [][ConvertNext]_styleVars

---------------------------------------------------------------------------
(* main.component.ts: getPropStatus *)

\* The values of the form group of one style property: the fields as the
\* form controls hold them, all strings but isComputed.
FormRules ==
  { StyleRule(isComputed, value, property, function, dr) :
      isComputed \in BOOLEAN,
      value \in {"", "0", "#fff"},
      property \in {"", "n"},
      function \in {"", "identity", "linear", "exponential"},
      dr \in { << <<>>, <<>> >>, << <<"", "">>, <<"", "">> >>,
               << <<"0", "60">>, <<"2", "24">> >> } }

\* Variant: a static value counts whether or not the rule is computed.
getPropStatus_valueFirst(rule) ==
  IF rule.value # "" THEN "global"
  ELSE IF rule.isComputed /\ rule.function # "" THEN "computed"
  ELSE "none"

\* getPropStatus(propName), rule being stylesFormGroup.controls[propName].value
getPropStatus(rule) ==
  IF ~rule.isComputed /\ rule.value # "" THEN "global"
  ELSE IF rule.isComputed /\ rule.function # "" THEN "computed"
  ELSE "none"

\* getPropStatus runs on the rule of the call that last holds.
GetPropStatus ==
  /\ last.op = "call"
  /\ last' = [op |-> "getPropStatus", rule |-> last.rule, value |-> getPropStatus(last.rule)]
  /\ UNCHANGED <<rules, scaleCache, builds, hist, mutations, owner, stamp>>
  /\ UNCHANGED <<mapVars, queryVars, restVars>>

\* The template is about to call getPropStatus for a property whose form
\* group holds rule.
StatusInit ==
  /\ rules = [id \in RuleIds |-> NoRule]
  /\ scaleCache = EmptyCache
  /\ \E rule \in FormRules : last = [op |-> "call", rule |-> rule]
  /\ builds = [id \in RuleIds |-> 0]
  /\ hist = [id \in RuleIds |-> "clean"]
  /\ mutations = 0
  /\ owner = [id \in RuleIds |-> StylePropNames[id]]
  /\ stamp = [id \in RuleIds |-> "none"]
  /\ MapConstructed
  /\ MainConstructed
  /\ IconsConstructed

StatusNext == GetPropStatus

SpecStatus == StatusInit /\ [][StatusNext]_styleVars

---------------------------------------------------------------------------
(* main.component.ts and rule.component.ts: the domain and range form arrays *)

\* Stops a form array is grown to.
MaxStops == 3

\* Operations on the form arrays in one behaviour.
MaxFormEdits == 3

\* The colours of two colorbrewer schemes, the second with fewer classes.
SchemeColors ==
  << <<"#f7fbff", "#deebf7", "#c6dbef", "#9ecae1", "#6baed6", "#4292c6", "#2171b5",
       "#08519c", "#08306b">>,
     <<"#7fc97f", "#beaed4", "#fdc086", "#ffff99", "#386cb0", "#f0027f", "#bf5b17",
       "#666666">> >>

\* PALETTES: palette[n] is the scheme's array of n colours, for n from 3 to
\* the number of classes of the scheme.
PALETTES ==
  [p \in DOMAIN SchemeColors |->
     [n \in 3..Len(SchemeColors[p]) |-> SubSeq(SchemeColors[p], 1, n)]]

\* FormArray.push(new FormControl(''))
push(controls) == Append(controls, "")

\* FormArray.removeAt(index): controls.splice(index, 1), a negative index
\* counting from the end and no element being removed from an empty array.
removeAt(controls, index) ==
  LET start == IF index >= 0 THEN Min(index, Len(controls))
                 ELSE IF Len(controls) + index < 0 THEN 0 ELSE Len(controls) + index
  IN  SubSeq(controls, 1, start) \o SubSeq(controls, start + 2, Len(controls))

\* FormArray.setValue(value): throws, changing nothing, unless every control
\* has a value; sets the controls in order and throws at the first value
\* that has no control.
setValue(controls, value) ==
  IF Len(value) < Len(controls) THEN controls
  ELSE [i \in 1..Len(controls) |-> value[i]]

\* Variant: only the domain array grows.
RECURSIVE setNumStops_domainOnly(_, _)
setNumStops_domainOnly(group, numStops) ==
  IF Len(group.domain) = numStops THEN group
  ELSE LET pushed == IF Len(group.domain) < numStops
                     THEN [domain |-> push(group.domain), range |-> group.range]
                     ELSE group
           removed == IF Len(pushed.domain) > numStops
                      THEN [domain |-> removeAt(pushed.domain, Len(pushed.domain) - 1),
                            range |-> removeAt(pushed.range, Len(pushed.range) - 1)]
                      ELSE pushed
       IN  setNumStops_domainOnly(removed, numStops)

\* setNumStops(group, numStops): the while loop, one iteration per step of
\* the recursion.
RECURSIVE setNumStops(_, _)
setNumStops(group, numStops) ==
  IF Len(group.domain) = numStops THEN group
  ELSE LET pushed == IF Len(group.domain) < numStops
                     THEN [domain |-> push(group.domain), range |-> push(group.range)]
                     ELSE group
           removed == IF Len(pushed.domain) > numStops
                      THEN [domain |-> removeAt(pushed.domain, Len(pushed.domain) - 1),
                            range |-> removeAt(pushed.range, Len(pushed.range) - 1)]
                      ELSE pushed
       IN  setNumStops(removed, numStops)

\* An operation on the form arrays of the style name has run.
FormEdited(op, name, group) ==
  /\ formEdits < MaxFormEdits
  /\ formEdits' = formEdits + 1
  /\ forms' = [forms EXCEPT ![name] = group]
  /\ last' = op @@ [name |-> name]
  /\ UNCHANGED <<rules, scaleCache, builds, hist, mutations, owner, stamp>>
  /\ UNCHANGED <<mapVars, queryVars, iconVars, bindVars, shareVars>>

\* MainComponent.setNumStops(stylesFormGroup.controls[name], numStops)
SetNumStops(name, numStops) ==
  FormEdited([op |-> "setNumStops", numStops |-> numStops], name,
             setNumStops(forms[name], numStops))

\* RuleInputComponent.addDomainRangeValue() of the rule input of name
addDomainRangeValue(name) ==
  /\ Len(forms[name].domain) < MaxStops
  /\ FormEdited([op |-> "addDomainRangeValue"], name,
                [domain |-> push(forms[name].domain), range |-> push(forms[name].range)])

\* RuleInputComponent.removeDomainRangeValue() of the rule input of name
removeDomainRangeValue(name) ==
  FormEdited([op |-> "removeDomainRangeValue"], name,
             [domain |-> removeAt(forms[name].domain, Len(forms[name].domain) - 1),
              range |-> removeAt(forms[name].range, Len(forms[name].range) - 1)])

\* RuleInputComponent.addRandomColors() of the rule input of name, p being
\* the palette drawn.
addRandomColors(name, p) ==
  LET palette == PALETTES[p]
      range == forms[name].range
  IN  FormEdited([op |-> "addRandomColors"], name,
                 [domain |-> forms[name].domain,
                  range |-> IF Len(range) < 3
                            THEN setValue(range, SubSeq(palette[3], 1, Len(range)))
                            ELSE IF Len(range) < 10
                            THEN IF Len(range) \in DOMAIN palette
                                 THEN setValue(range, palette[Len(range)])
                                 ELSE range
                            ELSE range])

FormInit == MapInit

FormNext ==
  \E name \in PropNames :
    \/ \E numStops \in 0..MaxStops : SetNumStops(name, numStops)
    \/ addDomainRangeValue(name)
    \/ removeDomainRangeValue(name)
    \/ \E p \in DOMAIN PALETTES : addRandomColors(name, p)

SpecForm == FormInit /\ [][FormNext]_styleVars

---------------------------------------------------------------------------
(* styles.service.ts: getIcon, with the caller of map.component.ts *)

\* Icon objects created in one behaviour.
MaxIcons == 3

\* `${v}` of a number or a string; the record of an "rgb" string stands for
\* the string itself.
TemplateString(v) == IF v.t \in {"str", "rgb"} THEN v ELSE Str(JsString(v))

\* `${radius}:${color}:${opacity}`, as the sequence of its parts
IconCacheKey(radius, color, opacity) ==
  <<TemplateString(radius), TemplateString(color), TemplateString(opacity)>>

\* `${color}:${opacity}`
ImageCacheKey(color, opacity) == <<TemplateString(color), TemplateString(opacity)>>

\* canvas.toDataURL() of the circle filled with the colour at the opacity
DataURL(parsedColor, opacity) == [color |-> parsedColor, opacity |-> opacity]

\* The icon object number n, made for the radius with the image url.
Icon(n, url, radius) ==
  [object |-> n, url |-> url, scaledSize |-> NumMul(radius, Num(2)), anchor |-> radius]

\* Variant: the circle is rendered for every new icon.
getIcon_noImageCache(icons, images, made, radius, color, opacity) ==
  LET iconCacheKey == IconCacheKey(radius, color, opacity)
      imageCacheKey == ImageCacheKey(color, opacity)
  IN  IF iconCacheKey \in DOMAIN icons
      THEN [threw |-> FALSE, icon |-> icons[iconCacheKey], icons |-> icons,
            images |-> images, rendered |-> FALSE, made |-> made]
      ELSE IF d3Color(color) = Null
      THEN [threw |-> TRUE, icons |-> icons, images |-> images, rendered |-> FALSE,
            made |-> made]
      ELSE LET cached == [k \in DOMAIN images \cup {imageCacheKey} |->
                            IF k = imageCacheKey THEN DataURL(d3Color(color), opacity)
                            ELSE images[k]]
               icon == Icon(made + 1, cached[imageCacheKey], radius)
           IN  [threw |-> FALSE, icon |-> icon,
                icons |-> [k \in DOMAIN icons \cup {iconCacheKey} |->
                             IF k = iconCacheKey THEN icon ELSE icons[k]],
                images |-> cached, rendered |-> TRUE, made |-> made + 1]

\* getIcon(radius, color, opacity) on the caches icons and images, made icon
\* objects existing: the icon returned, the caches afterwards and whether the
\* circle was rendered; d3Color.color(color) being null, the assignment to
\* parsedColor.opacity raises a TypeError.
getIcon(icons, images, made, radius, color, opacity) ==
  LET iconCacheKey == IconCacheKey(radius, color, opacity)
      imageCacheKey == ImageCacheKey(color, opacity)
      miss == imageCacheKey \notin DOMAIN images
  IN  IF iconCacheKey \in DOMAIN icons
      THEN [threw |-> FALSE, icon |-> icons[iconCacheKey], icons |-> icons,
            images |-> images, rendered |-> FALSE, made |-> made]
      ELSE IF miss /\ d3Color(color) = Null
      THEN [threw |-> TRUE, icons |-> icons, images |-> images, rendered |-> FALSE,
            made |-> made]
      ELSE LET cached == IF miss
                         THEN [k \in DOMAIN images \cup {imageCacheKey} |->
                                 IF k = imageCacheKey THEN DataURL(d3Color(color), opacity)
                                 ELSE images[k]]
                         ELSE images
               icon == Icon(made + 1, cached[imageCacheKey], radius)
           IN  [threw |-> FALSE, icon |-> icon,
                icons |-> [k \in DOMAIN icons \cup {iconCacheKey} |->
                             IF k = iconCacheKey THEN icon ELSE icons[k]],
                images |-> cached, rendered |-> miss, made |-> made + 1]

\* The radii, fill colours and fill opacities getStylesForFeature resolves for
\* a point: a truthy radius, a colour as parseColorString or a colour scale
\* prints it, an opacity as Number gives it.
IconRadii == {Num(5), Num(10)}
IconColors == {DEFAULT_STYLES.fillColor, Rgb(76, 175, 80)}
IconOpacities == {Num(1), Rat(1, 2)}

\* getStylesForFeature calls this.styler.getIcon(radius, color, opacity).
GetIcon(radius, color, opacity) ==
  \E o \in {getIcon(iconCache, imageCache, iconsMade, radius, color, opacity)} :
    LET iconCacheKey == IconCacheKey(radius, color, opacity)
        imageCacheKey == ImageCacheKey(color, opacity)
    IN  /\ o.made <= MaxIcons
        /\ iconCache' = o.icons
        /\ imageCache' = o.images
        /\ iconsMade' = o.made
        /\ renders' = IF o.rendered
                      THEN [k \in DOMAIN renders \cup {imageCacheKey} |->
                              IF k = imageCacheKey
                              THEN (IF k \in DOMAIN renders THEN renders[k] ELSE 0) + 1
                              ELSE renders[k]]
                      ELSE renders
        /\ firstIcon' = IF o.threw \/ iconCacheKey \in DOMAIN firstIcon THEN firstIcon
                        ELSE [k \in DOMAIN firstIcon \cup {iconCacheKey} |->
                                IF k = iconCacheKey THEN o.icon ELSE firstIcon[k]]
        /\ last' = IF o.threw
                   THEN [op |-> "getIcon", outcome |-> "throw", key |-> iconCacheKey,
                         repeat |-> iconCacheKey \in DOMAIN firstIcon]
                   ELSE [op |-> "getIcon", outcome |-> "return", key |-> iconCacheKey,
                         radius |-> radius, value |-> o.icon, rendered |-> o.rendered,
                         repeat |-> iconCacheKey \in DOMAIN firstIcon]
        /\ UNCHANGED <<rules, scaleCache, builds, hist, mutations, owner, stamp>>
        /\ UNCHANGED <<mapVars, queryVars, formVars, bindVars, shareVars>>

IconInit == MapInit

IconNext ==
  \/ \E radius \in IconRadii, color \in IconColors, opacity \in IconOpacities :
       GetIcon(radius, color, opacity)
  \/ Uncache

SpecIcon == IconInit /\ [][IconNext]_styleVars

---------------------------------------------------------------------------
(* Properties of parseStyle, checked under SpecStyles *)

Called == last.op = "parseStyle"
LastRule == rules[last.id]
LastProp == last.propName
\* row[rule.property] of the last call
LastField == RowGet(last.row, LastRule.property)
Returned == last.outcome = "return"

IsComplete(rule) == rule.isComputed /\ rule.property # "" /\ rule.function # ""

Distinct(seq) == \A i, j \in DOMAIN seq : i # j => seq[i] # seq[j]

\* The numeric domain d1 < ... < dn, n >= 1, all entries numbers.
Ascending(d) ==
  /\ Len(d) >= 1
  /\ \A i \in DOMAIN d : IsNum(d[i])
  /\ \A i \in 1..(Len(d) - 1) : NumLt(d[i], d[i + 1])

\* C1: a complete computed rule whose function is none of identity,
\* categorical, interval, linear makes parseStyle throw an error carrying
\* that function name; it returns no value.
C1_UnknownFunctionThrows ==
  (/\ Called
   /\ IsComplete(LastRule)
   /\ LastRule.function \notin {"identity", "categorical", "interval", "linear"})
  => (last.outcome = "throw" /\ last.error = LastRule.function)

C1_Witness ==
  /\ Called
  /\ IsComplete(LastRule)
  /\ LastRule.function = "exponential"
  /\ last.outcome = "throw"
  /\ last.error = "exponential"

\* C2: a rule with isComputed = false resolves to the parser of the property
\* applied to rule.value when that is non-empty and to the default constant
\* of the property when it is empty, whatever the row, property, function,
\* domain and range are; it never throws.
C2_StaticRule ==
  (Called /\ ~LastRule.isComputed)
  => /\ Returned
     /\ last.value = IF LastRule.value # ""
                     THEN PropParse(LastProp, Str(LastRule.value))
                     ELSE DEFAULT_STYLES[LastProp]

C2_Witness ==
  /\ Called
  /\ ~LastRule.isComputed
  /\ LastRule.value = ""
  /\ LastRule.function = "bogus"
  /\ LastProp = "strokeColor"
  /\ Returned
  /\ last.value = Str("#000000")

\* C3: a computed rule whose property or function is empty resolves to the
\* default constant of the property and never throws, whatever the other
\* fields and the row are.
C3_IncompleteRule ==
  (Called /\ LastRule.isComputed /\ (LastRule.property = "" \/ LastRule.function = ""))
  => (Returned /\ last.value = DEFAULT_STYLES[LastProp])

C3_Witness ==
  /\ Called
  /\ LastRule.isComputed
  /\ LastRule.property = ""
  /\ LastRule.function = "bogus"
  /\ Returned
  /\ last.value = DEFAULT_STYLES[LastProp]

\* C4: a complete computed rule with function identity resolves to the parser
\* of the property applied to row[rule.property]; domain and range have no
\* influence, and the call leaves the scale cache as it is, whether or not the
\* cache holds a scale for the rule.
C4_Identity ==
  /\ [](( /\ Called
          /\ IsComplete(LastRule)
          /\ LastRule.function = "identity")
        => (Returned /\ last.value = PropParse(LastProp, LastField)))
  /\ [][( /\ last'.op = "parseStyle"
          /\ IsComplete(rules[last'.id])
          /\ rules[last'.id].function = "identity")
        => scaleCache' = scaleCache]_styleVars

C4_Witness ==
  /\ Called
  /\ IsComplete(LastRule)
  /\ LastRule.function = "identity"
  /\ LastRule.property = "h"
  /\ LastProp = "fillColor"
  /\ last.row.h = Str("#fff")
  /\ scaleCache[last.id] # NoScale
  /\ Returned
  /\ last.value = Rgb(255, 255, 255)

\* C5: a categorical rule with pairwise distinct domain entries and a range
\* of the same length, resolved on a cache miss, pairs domain and range by
\* position: a row value equal to domain[i] gives the parsed range[i], a row
\* value matching no domain entry gives the default constant of the property.
\* In particular h = Good, Poor, Fair under domain [Poor, Fair, Good] and
\* range [#F44336, #FFC107, #4CAF50] gives the colours of #4CAF50, #F44336,
\* #FFC107.
C5_Categorical ==
  (/\ Called
   /\ IsComplete(LastRule)
   /\ LastRule.function = "categorical"
   /\ ~last.hit
   /\ Distinct(LastRule.domain)
   /\ Len(LastRule.domain) = Len(LastRule.range))
  => /\ Returned
     /\ LET key == JsString(LastField)
            matches == {i \in DOMAIN LastRule.domain : LastRule.domain[i] = key}
        IN  IF matches = {}
            THEN last.value = DEFAULT_STYLES[LastProp]
            ELSE \A i \in matches : last.value = PropParse(LastProp, Str(LastRule.range[i]))
     /\ (/\ LastRule.domain = <<"Poor", "Fair", "Good">>
         /\ LastRule.range = <<"#F44336", "#FFC107", "#4CAF50">>
         /\ LastRule.property = "h"
         /\ PropType(LastProp) = "color")
        => /\ last.row.h = Str("Good") => last.value = Rgb(76, 175, 80)
           /\ last.row.h = Str("Poor") => last.value = Rgb(244, 67, 54)
           /\ last.row.h = Str("Fair") => last.value = Rgb(255, 193, 7)
           /\ last.row.h = Str("Z") => last.value = DEFAULT_STYLES[LastProp]

C5_Witness ==
  /\ Called
  /\ LastRule.function = "categorical"
  /\ LastRule.property = "h"
  /\ LastRule.isComputed
  /\ LastRule.domain = <<"Poor", "Fair", "Good">>
  /\ LastProp = "fillColor"
  /\ ~last.hit
  /\ last.row.h = Str("Good")
  /\ Returned
  /\ last.value = Rgb(76, 175, 80)

C7_Linear ==
  (/\ Called
   /\ IsComplete(LastRule)
   /\ LastRule.function = "linear"
   /\ PropType(LastProp) = "number"
   /\ Ascending(NumericDomain(LastRule))
   /\ Len(LastRule.domain) >= 2
   /\ Len(LastRule.domain) = Len(LastRule.range)
   /\ \A i \in DOMAIN LastRule.range : IsNum(NumberOfString(LastRule.range[i]))
   /\ IsNum(parseNumber(LastField)))
  => /\ Returned
     /\ LET d == NumericDomain(LastRule)
            n == Len(d)
            v == parseNumber(LastField)
            r(i) == NumberOfString(LastRule.range[i])
            \* the segment [d_k, d_(k+1)] that v is interpolated on
            seg(k) == \/ k = 1 /\ NumLt(v, d[1])
                      \/ k = n - 1 /\ NumLe(d[n], v)
                      \/ NumLe(d[k], v) /\ NumLt(v, d[k + 1])
        IN  \A k \in 1..(n - 1) :
              seg(k) =>
                last.value =
                  NumAdd(r(k), NumDiv(NumMul(NumSub(v, d[k]), NumSub(r(k + 1), r(k))),
                                      NumSub(d[k + 1], d[k])))
     /\ (/\ LastRule.domain = <<"0", "60">>
         /\ LastRule.range = <<"2", "24">>
         /\ LastRule.property = "n")
        => /\ last.row.n = Num(30) => last.value = Num(13)
           /\ last.row.n = Num(120) => last.value = Num(46)

C7_Witness ==
  /\ Called
  /\ LastRule.isComputed
  /\ LastRule.function = "linear"
  /\ LastRule.property = "n"
  /\ LastRule.domain = <<"0", "60">>
  /\ LastRule.range = <<"2", "24">>
  /\ LastProp = "circleRadius"
  /\ last.row.n = Num(120)
  /\ Returned
  /\ last.value = Num(46)

---------------------------------------------------------------------------
(* Properties of the scale cache, checked under SpecCache *)

ScaleFunctions == {"categorical", "interval", "linear"}

\* What a scale constructed now, from the rule as it is, gives for the row.
FreshValue(propName, row, rule) ==
  LET field == RowGet(row, rule.property)
  IN  ApplyScale(BuildScale(propName, rule),
                 IF rule.function = "categorical" THEN field ELSE parseNumber(field))

\* C9: once uncache() has run, the next parseStyle call with a categorical,
\* interval or linear rule whose domain or range were changed in place after
\* its scale was cached returns what the current domain and range give.
C9_FreshAfterUncache ==
  (/\ Called
   /\ last.recovered
   /\ IsComplete(LastRule)
   /\ LastRule.function \in ScaleFunctions)
  => (Returned /\ last.value = FreshValue(LastProp, last.row, LastRule))

C9_Witness ==
  /\ Called
  /\ last.recovered
  /\ ~last.hit
  /\ LastRule.function = "interval"
  /\ LastRule.domain = <<"15", "30">>
  /\ LastProp = "fillColor"
  /\ last.row.n = Num(15)
  /\ Returned
  /\ last.value = Rgb(34, 34, 34)

\* C10: between two uncache() calls the scale of a rule object is constructed
\* at most once: the first call with a categorical, interval or linear rule
\* stores the scale, a call that finds it leaves the cache as it is, and two
\* successive calls with the same rule object, the same property name and
\* rows carrying the same field value return the same value.
C10_BuiltOnce ==
  /\ [](\A id \in RuleIds : builds[id] <= 1)
  /\ []((Called /\ IsComplete(LastRule) /\ LastRule.function \in ScaleFunctions)
        => scaleCache[last.id] # NoScale)
  /\ [][(last'.op = "parseStyle" /\ last'.hit) => scaleCache' = scaleCache]_styleVars
  /\ [][( /\ last.op = "parseStyle"
          /\ last'.op = "parseStyle"
          /\ last'.id = last.id
          /\ last'.propName = last.propName
          /\ IsComplete(rules[last.id])
          /\ rules[last.id].function \in ScaleFunctions
          /\ RowGet(last'.row, rules[last.id].property)
               = RowGet(last.row, rules[last.id].property))
        => ( /\ last'.outcome = "return"
             /\ last'.value = last.value
             /\ last'.hit )]_styleVars

C10_Witness ==
  /\ Called
  /\ last.hit
  /\ builds[last.id] = 1
  /\ LastRule.function = "linear"
  /\ LastRule.domain = <<"5", "15">>
  /\ LastProp = "circleRadius"
  /\ last.row.n = Num(15)
  /\ Returned
  /\ last.value = Num(24)

---------------------------------------------------------------------------
(* Properties of MapComponent's re-style passes, checked under SpecMap *)

\* C8: in every interleaving of the rows, geoColumn, page and styles setters,
\* the batched refresh of ngDoCheck, the parent's appends to the rows array
\* and the layer's accessor calls, the scale cache holds no scale built before
\* the latest re-style trigger, and no parseStyle call of an accessor uses
\* such a scale: every trigger leaves the cache empty before any call of its
\* pass runs.
C8_NoScaleFromEarlierPass ==
  /\ \A id \in RuleIds : scaleCache[id] # NoScale => stamp[id] = "current"
  /\ Called => "earlier" \notin last.used

\* After the batched refresh of ngDoCheck has run, an accessor call resolves
\* strokeWeight for a rule whose scale of an earlier pass was cleared by a
\* trigger: the call builds the scale anew, from the rule's current domain.
C8_Witness ==
  /\ Called
  /\ last.propName = "strokeWeight"
  /\ last.recovered
  /\ ~last.hit
  /\ scaleCache[last.id] # NoScale
  /\ stamp[last.id] = "current"
  /\ scaleCache[last.id] = BuildScale("strokeWeight", rules[last.id])
  /\ _batchSize = Rat(15, 2)

---------------------------------------------------------------------------
(* Error handling of parseStyle, checked under SpecCache *)

\* C11: a parseStyle call that ends in an error leaves the scale cache with
\* exactly the entries it held before the call: the step that ends with the
\* last call having thrown changes no entry of scaleCache.
C11_ErrorKeepsCache ==
  [][(last'.op = "parseStyle" /\ last'.outcome = "throw") => scaleCache' = scaleCache]_styleVars

\* A call throws for a rule whose own scale is in the cache (built before the
\* rule's function was edited to an unknown name), another rule's scale being
\* cached too; both entries are still there after the call.
C11_Witness ==
  /\ Called
  /\ last.outcome = "throw"
  /\ last.error = "exponential"
  /\ last.hit
  /\ scaleCache[last.id] # NoScale
  /\ \E id \in CacheIds \ {last.id} : scaleCache[id] # NoScale

---------------------------------------------------------------------------
(* Properties of the column statistics, checked under SpecStats *)

IsMissing(v) == v = Null \/ v = Str("")

\* The number of cells of cs that are null or the empty string.
MissingCount(cs) == Cardinality({i \in DOMAIN cs : IsMissing(cs[i])})

\* The other cells of cs, converted to numbers.
Remaining(cs) == {parseNumber(cs[i]) : i \in {j \in DOMAIN cs : ~IsMissing(cs[j])}}

Least(S) == CHOOSE x \in S : \A y \in S : NumLe(x, y)
Greatest(S) == CHOOSE x \in S : \A y \in S : NumLe(y, x)

\* x to 3 decimals: the k/1000 with k - 1/2 <= 1000 x < k + 1/2.
Round3(x) ==
  LET f == (1000 * x.p) \div x.q
      k == CHOOSE k \in (f - 1)..(f + 1) :
             k * 2 * x.q <= 2000 * x.p + x.q /\ 2000 * x.p + x.q < (k + 1) * 2 * x.q
  IN  Rat(k, 1000)

\* C12: from the initial ColumnStat, after normalizeRows has processed the
\* cells of a numeric column, nulls is the number of cells that were null or
\* the empty string; when the other cells all convert to numbers, min and max
\* are their minimum and maximum to 3 decimals (+Infinity and -Infinity when
\* there is none); the cells [1, null, 3, -2] give min = -2, max = 3, nulls = 1.
C12_ColumnStat ==
  stats # Undefined =>
    /\ stats.nulls = MissingCount(cells)
    /\ (\A x \in Remaining(cells) : IsNum(x)) =>
         /\ stats.min = IF Remaining(cells) = {} THEN PosInfinity
                        ELSE Round3(Least(Remaining(cells)))
         /\ stats.max = IF Remaining(cells) = {} THEN NegInfinity
                        ELSE Round3(Greatest(Remaining(cells)))
    /\ cells = <<Num(1), Null, Num(3), Num(-2)>> =>
         stats = [min |-> Num(-2), max |-> Num(3), nulls |-> 1]

\* The cells [1, null, 3, -2] have been processed.
C12_Witness ==
  /\ cells = <<Num(1), Null, Num(3), Num(-2)>>
  /\ stats = [min |-> Num(-2), max |-> Num(3), nulls |-> 1]

\* A cell that is neither null nor empty and does not convert to a number.
NonNumeric(v) == ~IsMissing(v) /\ IsNaN(parseNumber(v))

\* C13: a call of normalizeRows on one cell of a numeric column that is
\* neither null nor empty and does not convert to a number counts the cell as
\* a null: nulls grows by one, min and max keep their values.
C13_NonNumericCountsAsNull ==
  [][(/\ stats # Undefined
      /\ Len(cells') = Len(cells) + 1
      /\ SubSeq(cells', 1, Len(cells)) = cells
      /\ NonNumeric(cells'[Len(cells')]))
     => (/\ stats'.nulls = stats.nulls + 1
         /\ stats'.min = stats.min
         /\ stats'.max = stats.max)]_styleVars

---------------------------------------------------------------------------
(* Properties of the paged query, checked under SpecQuery *)

\* The raw cells of column n of the pages ps, in order.
RECURSIVE CellsOfPages(_)
CellsOfPages(ps) ==
  IF ps = <<>> THEN <<>>
  ELSE CellsOfPages(SubSeq(ps, 1, Len(ps) - 1))
         \o CellsOf(PageRows(ps[Len(ps)].q, ps[Len(ps)].k))

\* C14: whenever MainComponent.stats has statistics for the numeric column,
\* the pages put into rows all belong to one query, the latest whose first
\* response arrived, rows holds one row per cell of these pages, and the
\* statistics are the null count, minimum and maximum of exactly these cells:
\* a new query starts afresh and follow-up pages accumulate.
C14_StatsOfCurrentQuery ==
  stats # Undefined =>
    LET cs == CellsOfPages(pages)
    IN  /\ pages # <<>>
        /\ \A i \in DOMAIN pages : pages[i].q = pages[1].q
        /\ Len(main_rows) = Len(cs)
        /\ \A i \in DOMAIN cs : main_rows[i].n = NumberCell(cs[i])
        /\ stats.nulls = MissingCount(cs)
        /\ stats.min = IF Remaining(cs) = {} THEN PosInfinity ELSE Round3(Least(Remaining(cs)))
        /\ stats.max = IF Remaining(cs) = {} THEN NegInfinity ELSE Round3(Greatest(Remaining(cs)))

\* The second query has three pages in rows and a fourth requested; its
\* statistics are those of its own cells 3, '' and 1.2346.
C14_Witness ==
  /\ queryNo = 2
  /\ pending
  /\ pages = <<[q |-> 2, k |-> 0], [q |-> 2, k |-> 1], [q |-> 2, k |-> 2]>>
  /\ stats = [min |-> Rat(247, 200), max |-> Num(3), nulls |-> 1]

\* C15: at most one request is in flight at any time; the pages in rows are
\* the pages 0, 1, 2, ... in this order, and a page request in flight asks
\* for the page after the last one appended.
C15_OnePageInFlight ==
  /\ Len(inflight) <= 1
  /\ \A i \in DOMAIN pages : pages[i].k = i - 1
  /\ \A i \in DOMAIN inflight :
       inflight[i].kind = "page" => inflight[i].token = Len(pages)

\* The request for the fourth page is in flight, three pages being in rows.
C15_Witness ==
  /\ inflight = <<[kind |-> "page", q |-> 1, token |-> 3, count |-> 3]>>
  /\ Len(pages) = 3
  /\ Len(main_rows) = 3

\* C16: the pages put into MainComponent.rows for one query, the first
\* response included, never number more than MAX_PAGES.
C16_AtMostMaxPages == Len(pages) <= MAX_PAGES

---------------------------------------------------------------------------
(* Properties of rowsToGeoJSON, checked under SpecGeo *)

\* The value of the geometry column is non-empty and parses.
Parses(v) == v.t = "str" /\ v.s # "" /\ \E l \in GeometryLiterals : l[1] = v.s

\* The positions of the rows of items that have a feature.
Kept(items, geoColumn) == {i \in DOMAIN items : Parses(RowGet(items[i], geoColumn))}

\* The j-th smallest member of the set S of numbers.
Nth(S, j) == CHOOSE i \in S : Cardinality({k \in S : k < i}) = j - 1

---------------------------------------------------------------------------
(* The colours handed to the render layer, checked under SpecMap *)

\* C18: when getFillColor or getLineColor returns a colour for a feature
\* whose opacity resolved to a number in [0, 1], the alpha channel of that
\* colour is round(opacity * 255), a whole number in 0..255; the default
\* opacity 1.0 gives 255.
C18_AlphaIsRounded255 ==
  (/\ last.op = "parseStyle"
   /\ last.outcome = "return"
   /\ "alpha" \in DOMAIN last
   /\ NumLe(Num(0), last.value)
   /\ NumLe(last.value, Num(1)))
    => /\ last.alpha = Num(MathRound(NumMul(last.value, Num(255))))
       /\ NumLe(Num(0), last.alpha)
       /\ NumLe(last.alpha, Num(255))

---------------------------------------------------------------------------
(* The description of 'interval' in StyleFunctions, checked under SpecStyles *)

\* C19: an interval rule with an ascending numeric domain d1 < ... < dn and
\* a range r1..rn, resolved on a cache miss for a numeric row value v, rounds
\* v down to the nearest domain value and gives the range entry at the same
\* index: d_i <= v < d_(i+1) gives parse(r_i), and v >= dn gives parse(r_n).
C19_IntervalRoundsDown ==
  (/\ Called
   /\ IsComplete(LastRule)
   /\ LastRule.function = "interval"
   /\ ~last.hit
   /\ Ascending(NumericDomain(LastRule))
   /\ Len(LastRule.domain) = Len(LastRule.range)
   /\ IsNum(parseNumber(LastField)))
  => /\ Returned
     /\ LET d == NumericDomain(LastRule)
            n == Len(d)
            v == parseNumber(LastField)
            r(i) == PropParse(LastProp, Str(LastRule.range[i]))
        IN  \A i \in 1..n :
              (NumLe(d[i], v) /\ (i = n \/ NumLt(v, d[i + 1]))) => last.value = r(i)

---------------------------------------------------------------------------
(* Properties of getPropStatus, checked under SpecStatus *)

\* C20: getPropStatus gives 'global' exactly when the rule is not computed
\* and its static value is non-empty, 'computed' exactly when the rule is
\* computed and its function name is non-empty, and 'none' in every other
\* case; two rules that agree on isComputed, value and function have the same
\* status whatever their property, domain and range.
C20_ThreeStatuses ==
  last.op = "getPropStatus" =>
    LET rule == last.rule
        global == ~rule.isComputed /\ rule.value # ""
        computed == rule.isComputed /\ rule.function # ""
    IN  /\ last.value \in {"global", "computed", "none"}
        /\ (last.value = "global") <=> global
        /\ (last.value = "computed") <=> computed
        /\ (last.value = "none") <=> (~global /\ ~computed)
        /\ \A other \in FormRules :
             (/\ other.isComputed = rule.isComputed
              /\ other.value = rule.value
              /\ other.function = rule.function)
               => getPropStatus(other) = last.value

\* A computed rule that still holds a static value and has a function: its
\* status is 'computed'.
C20_Witness ==
  /\ last.op = "getPropStatus"
  /\ last.rule.isComputed
  /\ last.rule.value = "#fff"
  /\ last.rule.function = "linear"
  /\ last.rule.property = ""
  /\ last.value = "computed"

---------------------------------------------------------------------------
(* Properties of the form arrays, checked under SpecForm *)

\* C21: in every state the domain array and the range array of each of the
\* six form groups have the same length, 2 at the start, and a state that
\* setNumStops(group, n) has just produced has both arrays of that group at
\* length n.
C21_DomainRangeSameLength ==
  /\ \A name \in PropNames : Len(forms[name].domain) = Len(forms[name].range)
  /\ formEdits = 0 => \A name \in PropNames : Len(forms[name].domain) = 2
  /\ last.op = "setNumStops"
       => /\ Len(forms[last.name].domain) = last.numStops
          /\ Len(forms[last.name].range) = last.numStops

\* The arrays of fillColor were emptied and removed from once more, then
\* setNumStops(3) has grown those of strokeWeight.
C21_Witness ==
  /\ last.op = "setNumStops"
  /\ last.name = "strokeWeight"
  /\ last.numStops = 3
  /\ forms["strokeWeight"].range = <<"", "", "">>
  /\ forms["fillColor"].domain = <<>>
  /\ formEdits = 3

---------------------------------------------------------------------------
(* Properties of getIcon, checked under SpecIcon *)

\* C22: after any sequence of getIcon and uncache calls, a getIcon call for
\* a triple (radius, color, opacity) requested before returns the very icon
\* object the first request returned, without rendering; the circle has been
\* rendered at most once for each (color, opacity) pair; the url of every
\* cached icon is the cached image of its pair; and every icon and image ever
\* cached is still cached, uncache() or not.
C22_IconCachedByTriple ==
  /\ last.op = "getIcon"
       => /\ last.outcome = "return"
          /\ last.value = firstIcon[last.key]
          /\ last.value.scaledSize = NumMul(last.radius, Num(2))
          /\ last.repeat => ~last.rendered
  /\ \A k \in DOMAIN renders : renders[k] <= 1
  /\ \A k \in DOMAIN iconCache :
       /\ <<k[2], k[3]>> \in DOMAIN imageCache
       /\ iconCache[k].url = imageCache[<<k[2], k[3]>>]
  /\ \A k \in DOMAIN firstIcon : k \in DOMAIN iconCache /\ iconCache[k] = firstIcon[k]
  /\ DOMAIN renders = DOMAIN imageCache

\* Three icons exist, two of them sharing one image; the last call asked
\* again for the first triple and got the first icon object.
C22_Witness ==
  /\ last.op = "getIcon"
  /\ last.repeat
  /\ last.value.object = 1
  /\ iconsMade = 3
  /\ Cardinality(DOMAIN imageCache) = 2
  /\ ~last.rendered

---------------------------------------------------------------------------
(* The breakpoints of 'interval', checked under SpecInterval *)

\* C23: an interval rule whose domain entries are all numbers, resolved on a
\* cache miss for a numeric row value v, gives the bucket of the breakpoints
\* sorted ascending, that is the range entry (the default after the last)
\* whose index is the number of breakpoints not above v, in whatever order
\* rule.domain lists them.
C23_BreakpointsSorted ==
  (/\ Called
   /\ LastRule.function = "interval"
   /\ ~last.hit
   /\ \A i \in DOMAIN LastRule.domain : IsNum(NumericDomain(LastRule)[i])
   /\ IsNum(parseNumber(LastField)))
  => /\ Returned
     /\ LET d == NumericDomain(LastRule)
            v == parseNumber(LastField)
            below == Cardinality({i \in DOMAIN d : NumLe(d[i], v)})
            range == ParsedRange(LastProp, LastRule) \o <<DEFAULT_STYLES[LastProp]>>
        IN  last.value = range[below + 1]

---------------------------------------------------------------------------
(* The stale scale, checked under SpecCache *)

\* C24: a parseStyle call that finds a scale cached for its rule object,
\* the rule's domain and range having been changed in place since the scale
\* was built and uncache() not having run, returns without error the value
\* that the domain and range of the time of the build give, and leaves the
\* old scale in the cache.
C24_StaleScaleUsed ==
  [][(/\ last'.op = "parseStyle"
      /\ last'.hit
      /\ UsesScale(rules[last'.id])
      /\ hist[last'.id] = "stale")
     => /\ last'.outcome = "return"
        /\ scaleCache' = scaleCache
        /\ \E dr \in CacheDomainRanges, propName \in CacheProps :
             LET old == [rules[last'.id] EXCEPT !.domain = dr[1], !.range = dr[2]]
             IN  /\ scaleCache[last'.id] = BuildScale(propName, old)
                 /\ last'.value = FreshValue(propName, last'.row, old)]_styleVars

\* The interval scale was built from [5, 15] / [2, 24]; the rule now holds
\* [15, 30] / [#111, #222]; the row value 15 still gives the old default.
C24_Witness ==
  /\ Called
  /\ last.hit
  /\ hist[last.id] = "stale"
  /\ LastRule.function = "interval"
  /\ LastRule.domain = <<"15", "30">>
  /\ scaleCache[last.id].domain = <<Num(5), Num(15)>>
  /\ LastProp = "circleRadius"
  /\ last.row.n = Num(15)
  /\ Returned
  /\ last.value = DEFAULT_STYLES["circleRadius"]
  /\ last.value # FreshValue(LastProp, last.row, LastRule)

---------------------------------------------------------------------------
(* The frame of parseStyle, checked under SpecCache *)

\* C25: a parseStyle call changes the scale cache in one case only, a miss
\* for a complete computed rule whose function is categorical, interval or
\* linear, and then it adds the entry of that rule object and nothing else;
\* a call that takes the static, incomplete, identity or throwing branch or
\* that hits leaves the cache as it is.  Hence every entry belongs to a rule
\* object resolved, and its scale built, since the last uncache().
C25_CacheChangedOnMissOnly ==
  /\ [][last'.op = "parseStyle"
        => IF UsesScale(rules[last'.id]) /\ scaleCache[last'.id] = NoScale
           THEN /\ scaleCache'[last'.id] # NoScale
                /\ \A id \in RuleIds \ {last'.id} : scaleCache'[id] = scaleCache[id]
           ELSE scaleCache' = scaleCache]_styleVars
  /\ [](\A id \in RuleIds : scaleCache[id] # NoScale => builds[id] >= 1)

\* The second rule object has just got its entry, the first having one
\* already; the other rule objects have none.
C25_Witness ==
  /\ Called
  /\ ~last.hit
  /\ last.id = 2
  /\ UsesScale(LastRule)
  /\ scaleCache[1] # NoScale
  /\ scaleCache[2] # NoScale
  /\ \A id \in RuleIds \ {1, 2} : scaleCache[id] = NoScale

---------------------------------------------------------------------------
(* Repeating normalizeRows on a batch, checked under SpecStats *)

\* The last Len(b) cells of the sequence c are the cells of the batch b.
EndsWith(c, b) ==
  /\ Len(c) >= Len(b)
  /\ SubSeq(c, Len(c) - Len(b) + 1, Len(c)) = b

\* C26: normalizeRows run a second time on the same batch of rows with the
\* same statistics map leaves the ColumnStat (min, max and nulls) equal to its
\* value after the first run.
C26_SecondRunKeepsStats ==
  [][(/\ stats # Undefined
      /\ Len(cells') > Len(cells)
      /\ SubSeq(cells', 1, Len(cells)) = cells
      /\ EndsWith(cells, SubSeq(cells', Len(cells) + 1, Len(cells'))))
     => stats' = stats]_styleVars

---------------------------------------------------------------------------
(* The cache and the property a rule object is resolved for, checked under
   SpecCache *)

\* C27: for a complete categorical, interval or linear rule whose domain and
\* range were not changed in place behind a cached scale, parseStyle(P, row,
\* rule) returns what a scale freshly built for property P returns (P's
\* parser applied to the range, P's default as fallback), whatever calls came
\* before, calls for the same rule object under another property name
\* included: the cache never changes a result.
C27_CacheNeverChangesResult ==
  (/\ Called
   /\ UsesScale(LastRule)
   /\ hist[last.id] # "stale")
  => (Returned /\ last.value = FreshValue(LastProp, last.row, LastRule))

---------------------------------------------------------------------------
(* Mutual exclusion of queries, checked under SpecQuery *)

\* C28: a query() call made while pending is true changes no state and sends
\* no request; pending is true while a request of the running query is
\* unanswered and goes back to false only when none remains; and whenever
\* rows or stats change, every page in rows belongs to the latest query
\* started, never to an earlier one.
C28_QueryMutuallyExclusive ==
  /\ [][(last' # last /\ last'.op = "query" /\ pending) => UNCHANGED <<queryVars, mapVars>>]_styleVars
  /\ [](inflight # <<>> => pending)
  /\ [][(pending /\ ~pending') => inflight' = <<>>]_styleVars
  /\ [][(main_rows' # main_rows \/ stats' # stats)
        => \A i \in DOMAIN pages' : pages'[i].q = queryNo']_styleVars

\* A query() call was ignored during the second query, which has since put
\* two pages into rows and waits for the third.
C28_Witness ==
  /\ last = [op |-> "query", pending |-> TRUE, projectId |-> "my-project"]
  /\ pending
  /\ queryNo = 2
  /\ pages = <<[q |-> 2, k |-> 0], [q |-> 2, k |-> 1]>>
  /\ inflight = <<[kind |-> "page", q |-> 2, token |-> 2, count |-> 2]>>

---------------------------------------------------------------------------
(* Termination of a query, checked under SpecQueryLive *)

\* C29: when every request sent is answered in the end, every query() call
\* that sets pending is followed by pending being reset: whether the dry
\* run, the query or a page fetch fails or all succeed, and also when the
\* project id of the form is empty.
C29_PendingEventuallyReset == pending ~> ~pending

---------------------------------------------------------------------------
(* The end of the pagination and the map, checked under SpecPaging *)

\* The rows of the pages ps as normalizeRows returns them, in order.
RECURSIVE RowsOfPages(_)
RowsOfPages(ps) ==
  IF ps = <<>> THEN <<>>
  ELSE RowsOfPages(SubSeq(ps, 1, Len(ps) - 1))
         \o normalizeRows(PageRows(ps[Len(ps)].q, ps[Len(ps)].k), InitialStat).rows

\* The query has ended and the layer shows the features of all rows fetched.
AllRowsRendered ==
  /\ ~pending
  /\ todo = <<>>
  /\ main_rows = RowsOfPages(pages)
  /\ _rows = main_rows
  /\ _features = rowsToGeoJSON(main_rows, _geoColumn)
  /\ _deckLayer = [t |-> "overlay",
                   layers |-> <<GeoJsonLayer(_features, _page, _activeGeometryTypes)>>]

\* A page request of the query has rejected.
PageRejected == last = [op |-> "showMessage", kind |-> "page"]

\* C30: unless a page request rejects, the pagination of a query ends, and
\* its last step replaces MainComponent.rows by a new array with the same
\* rows; with the map initialised the rows setter then runs, so in the end
\* the features rendered are rowsToGeoJSON(all rows fetched, geoColumn),
\* whatever the batched refresh of ngDoCheck had left out.
C30_AllRowsRenderedAtEnd ==
  /\ [][(pending /\ ~pending' /\ last'.op # "showMessage")
        => (main_rows' = main_rows /\ ~rowsBound')]_styleVars
  /\ (pending /\ map /\ pages # <<>> /\ pages[1].q = queryNo)
       ~> (AllRowsRendered \/ PageRejected)

\* Three pages were fetched; the batched refresh never ran (one change
\* counted at most), and the layer shows the two features of the three rows.
C30_Witness ==
  /\ AllRowsRendered
  /\ map
  /\ Len(pages) = 3
  /\ _geoColumn = "g"
  /\ Len(_features) = 2
  /\ _numChanges = 0
  /\ _batchSize = Num(DEFAULT_BATCH_SIZE)

\* The ColumnStat of column n after the pages ps, folded from new statistics.
StatOfPages(ps) ==
  LET stat[n \in 0..Len(ps)] ==
        IF n = 0 THEN QueryStats
        ELSE normalizeRows(PageRows(ps[n].q, ps[n].k), stat[n - 1]).stat
  IN  stat[Len(ps)]

\* The request of inflight[i] is a page request and it fails in this step: it
\* is answered and no page is received.
PageRequestFails(i) ==
  /\ inflight[i].kind = "page"
  /\ inflight[i] \notin {inflight'[j] : j \in DOMAIN inflight'}
  /\ pages' = pages

\* The handler has still to call getResults.
GetResultsDue == \E n \in DOMAIN todo : todo[n].step = "getResults"

\* C31: when the k-th page request of a query fails, rows and stats stay as
\* they are, which is the first response and pages 1..k-1 and nothing else,
\* a message is shown, pending is reset and no request or call of getResults
\* is left; page requests exist only for the pending, latest query, and
\* pending is set again only by a new query.
C31_PageFailureStops ==
  /\ [][\A i \in DOMAIN inflight : PageRequestFails(i) =>
          /\ last'.op = "showMessage"
          /\ ~pending'
          /\ main_rows' = main_rows
          /\ stats' = stats
          /\ pages = [n \in 1..inflight[i].token |-> [q |-> inflight[i].q, k |-> n - 1]]
          /\ main_rows = RowsOfPages(pages)
          /\ stats = StatOfPages(pages)
          /\ inflight' = <<>>
          /\ ~GetResultsDue']_styleVars
  /\ [](\A i \in DOMAIN inflight : inflight[i].kind = "page" =>
          pending /\ inflight[i].q = queryNo)
  /\ [](GetResultsDue => pending)
  /\ [][(~pending /\ pending') => queryNo' = queryNo + 1]_styleVars

\* The third page request has failed: three rows (the first response and two
\* pages) with their statistics, the message, and nothing in flight.
C31_Witness ==
  /\ last = [op |-> "showMessage", kind |-> "page"]
  /\ ~pending
  /\ pages = <<[q |-> 1, k |-> 0], [q |-> 1, k |-> 1], [q |-> 1, k |-> 2]>>
  /\ Len(main_rows) = 3
  /\ main_rows = RowsOfPages(pages)
  /\ stats = StatOfPages(pages)
  /\ stats.nulls = 1
  /\ inflight = <<>>
  /\ todo = <<>>

\* The component does not hold both a job id and a project id.
NoJobParams == Falsy(jobID) \/ Falsy(projectID)

\* C32: right after query() has started or onApplyStylesClicked() has run the
\* generated sharing id and the sharing URL are empty and sharingDataChanged
\* is set; a document is handed to the shared storage only by
\* generateSharingUrl, with sharingDataChanged set, the step SHARE and the
\* stepper changed, and never without job id and project id.
C32_NewSharingIdRequired ==
  /\ []((last.op = "onApplyStylesClicked" \/ (last.op = "query" /\ ~last.pending))
          => (generatedSharingId = "" /\ sharingUrl = <<>> /\ sharingDataChanged))
  /\ [][Len(saves') > Len(saves)
          => /\ last'.op = "generateSharingUrl"
             /\ sharingDataChanged
             /\ stepIndex = Step.SHARE
             /\ stepperChanged
             /\ ~NoJobParams
             /\ ~sharingDataChanged']_styleVars
  /\ [][Len(saves) + Len(documents) < Len(saves') + Len(documents')
          => Len(saves') > Len(saves)]_styleVars

\* A document was stored from the SHARE step and its URL shown; then a query
\* has started: the URL and the id are gone and a new document is required.
C32_Witness ==
  /\ last.op = "query"
  /\ ~last.pending
  /\ Len(documents) = 1
  /\ documents[1].jobID = Str("job-0")
  /\ stepIndex = Step.SHARE
  /\ generatedSharingId = ""
  /\ sharingUrl = <<>>
  /\ sharingDataChanged

\* The document of the shared storage that the sharing id names.
DocumentOf(id) == documents[CHOOSE n \in DOMAIN documents : DocIds[n] = id]

\* C33: whenever a sharing id is generated and the URL is shown, the document
\* behind it holds the current job id and the current styles.
C33_SharingUrlCurrent ==
  (generatedSharingId # "" /\ sharingUrl # <<>>)
    => DocumentOf(generatedSharingId) = [jobID |-> jobID, styles |-> main_styles]

\* The user query q without its trailing semicolon and without the
\* whitespace around it.
WithoutSemicolon(q) ==
  LET trimmed == Trim(q)
  IN  IF trimmed # <<>> /\ trimmed[Len(trimmed)] = ";"
      THEN Trim(SubSeq(trimmed, 1, Len(trimmed) - 1))
      ELSE trimmed

\* convertToUserQuery has returned, for a wrapped user query or for an empty
\* or missing text.
Unwrapped == last.op = "convertToUserQuery"

\* C34 as stated: unwrapping a wrapped user query gives the query without
\* trailing semicolon and surrounding whitespace, and unwrapping an empty or
\* missing text gives the empty string.
C34_RoundTrip ==
  Unwrapped =>
    IF last.userQuery = Null THEN last.value = <<>>
    ELSE last.value = WithoutSemicolon(last.userQuery.pieces)

\* C34 amended: as stated for the line-wise convertToUserQuery; the one that
\* cuts the text between the markers returns the same followed by a newline.
C34_RoundTripUpToNewline ==
  Unwrapped =>
    IF last.userQuery = Null THEN last.value = <<>>
    ELSE IF last.version = "lines"
    THEN last.value = WithoutSemicolon(last.userQuery.pieces)
    ELSE last.value = Append(WithoutSemicolon(last.userQuery.pieces), "\n")

\* " a;\n" was wrapped and unwrapped by the cutting version: "a\n".
C34_Witness ==
  /\ Unwrapped
  /\ last.version = "substring"
  /\ last.userQuery = Text(<<" ", "a", ";", "\n">>)
  /\ last.value = <<"a", "\n">>

====
